---- MODULE Spec2Model ----
(***************************************************************************)
(* Settlement core of the billing service: invoices, payments, sales       *)
(* orders and sales returns, as implemented by InvoiceService,             *)
(* PaymentService, SalesOrderService and SalesReturnService on top of the  *)
(* GORM repositories.                                                      *)
(*                                                                         *)
(* Money is counted in cents: every monetary column is decimal(15,2), so   *)
(* the fixed tolerance 0.01 of RecordPayment is one unit.  Identifiers     *)
(* produced by uuid.New() are modelled by counters that never reuse a      *)
(* value.  Every request-serving operation is one atomic step (requests    *)
(* are served one after the other and every store write succeeds).         *)
(***************************************************************************)
EXTENDS Integers, Sequences, FiniteSets, TLC

\* ---------------------------------------------------------------- bounds
MaxInvoices == 2
MaxOpenInvoices == 1
MaxPayments == 2
MaxOrders == 1
NumOrgs == 1
MaxReturns == 1
MaxAmount == 2
MaxOrderLines == 2
MaxRows == 1
MaxTime == 1
MaxNameWords == 3
NumProcs == 2
MaxRefunds == 2
MaxOrderReturns == 2

\* ------------------------------------------------------- program constants
\* const epsilon = 0.01 of RecordPayment, in cents
Epsilon == 1

InvoiceIds == 1..MaxInvoices
PaymentIds == 1..(MaxPayments + MaxReturns)
OrderIds == 1..MaxOrders
ReturnIds == 1..MaxReturns
Orgs == 1..NumOrgs
Amounts == (-1)..MaxAmount

InvoiceStatuses == {"draft", "sent", "paid", "overdue", "void"}

NoNumber == <<>>
NoRef == 0

\* Request handlers that serve requests at the same time, and the state of a
\* handler that is serving none
Procs == 1..NumProcs
Idle == [op |-> "idle"]

\* All requests are served within one calendar day, so the year and the day
\* that time.Now() puts into generated numbers are the same for every request
Today == "today"

VARIABLES
    invoices,      \* invoices table: id -> row (items preloaded into the row)
    payments,      \* payments table: id -> row
    salesOrders,   \* sales_orders table: id -> row
    salesReturns,  \* sales_returns table: id -> row
    audit,         \* rows the last request appended to invoice_audit_logs
    published,     \* events the last request handed to the event publisher
    stockUpdates,  \* UpdateStock calls of the last request the inventory accepted
    nextInvoice,   \* next fresh invoice id
    nextPayment,   \* next fresh payment id
    nextOrder,     \* next fresh sales order id
    nextReturn,    \* next fresh sales return id
    assigned,      \* history: every <<organization, number, invoice>> SendInvoice stored
    ok,            \* whether the last request served returned a nil error
    readModel,     \* read-model tables of the event projector: table -> set of rows
    handled,       \* outcome of the last message the event handler consumed
    inflight       \* per request handler: the request it is serving step by step

vars == <<invoices, payments, salesOrders, salesReturns, audit, published, stockUpdates,
          nextInvoice, nextPayment, nextOrder, nextReturn, assigned, ok,
          readModel, handled, inflight>>

\* ------------------------------------------------------------ domain: Invoice
CanEdit(inv) == inv.status = "draft"

CanSend(inv) == inv.status = "draft"

validTransitions ==
    [s \in InvoiceStatuses |->
        CASE s = "draft"   -> {"sent", "void"}
          [] s = "sent"    -> {"paid", "overdue", "void"}
          [] s = "overdue" -> {"paid", "void"}
          [] s = "paid"    -> {"void"}
          [] s = "void"    -> {}]

\* TRUE when the method returns a nil error
CanTransitionTo(inv, newStatus) ==
    /\ inv.status \in DOMAIN validTransitions
    /\ newStatus \in validTransitions[inv.status]

CanReceivePaymentAnyStatus(inv) == inv.status \in InvoiceStatuses

CanReceivePayment(inv) == inv.status = "sent"

CanRefund(inv) == inv.status = "paid"

CalculateStatusOnAnyPayment(inv) ==
    IF inv.paid > 0 THEN "paid" ELSE inv.status

CalculateStatus(inv) ==
    IF inv.balance = 0 /\ inv.paid > 0 THEN "paid" ELSE inv.status

CanVoidAlways(p) == p.status \in {"completed", "void"}

CanVoid(p) == p.status = "completed"

\* ------------------------------------------------------------ line arithmetic
RECURSIVE SumOver(_)
SumOver(seq) ==
    IF Len(seq) = 0 THEN 0 ELSE Head(seq) + SumOver(Tail(seq))

LineGross(l) == l.quantity * l.unitPrice
LineDiscount(l) == l.discount
LineTax(l) == l.tax
ItemTotal(l) == (l.quantity * l.unitPrice) - l.discount + l.tax

Line(q, p, d, t, r) ==
    [quantity |-> q, unitPrice |-> p, discount |-> d, tax |-> t, resolves |-> r]

\* Requests offered to CreateInvoice and UpdateInvoice.  `resolves` says whether
\* the line's item is found in the read model or carries a name in the request.
InvoiceRequests ==
    { [items |-> <<Line(1, 2, 0, 0, TRUE)>>, adjustment |-> 0, exciseDuty |-> 0,
       salesOrder |-> NoRef],
      [items |-> <<Line(1, 1, 1, 1, TRUE)>>, adjustment |-> -2, exciseDuty |-> 1,
       salesOrder |-> NoRef],
      [items |-> <<Line(1, 2, 0, 0, FALSE)>>, adjustment |-> 0, exciseDuty |-> 0,
       salesOrder |-> NoRef] }


StoredItem(l) ==
    [quantity |-> l.quantity, unitPrice |-> l.unitPrice, discount |-> l.discount,
     tax |-> l.tax, total |-> ItemTotal(l)]

StoredItems(lines) == [k \in 1..Len(lines) |-> StoredItem(lines[k])]

\* ------------------------------------------------------------- repositories
WithRow(table, id, row) == [k \in DOMAIN table \cup {id} |-> IF k = id THEN row ELSE table[k]]

WithoutRows(table, ids) == [k \in DOMAIN table \ ids |-> table[k]]

\* SELECT count(*) FROM invoices WHERE organization_id = ?
CountInvoices(org) == Cardinality({i \in DOMAIN invoices : invoices[i].org = org})

\* "INV-%d-%04d" of the current year and count+1
GetNextInvoiceNumber(org) == <<CountInvoices(org) + 1>>

\* uniqueIndex on invoices.invoice_number: a Save that would give two rows the
\* same non-null number is refused by the store
NumberTaken(id, number) ==
    \E j \in DOMAIN invoices : j # id /\ invoices[j].number = number

AuditRow(id, action) == [invoice |-> id, action |-> action]

Event(type, id) == [type |-> type, aggregate |-> id]

\* auditRepo.Create: the rows are appended unless the audit store fails
AuditWritten(rows, auditOk) == IF auditOk THEN rows ELSE {}

AuditErrorReturnedToCaller(auditOk) == ~auditOk

\* The callers of auditRepo.Create print its error or drop it: it never
\* becomes the error of the request
AuditErrorReturned(auditOk) == FALSE

\* ----------------------------------------------------------- InvoiceService
NewInvoice(org, req) ==
    LET sub  == SumOver([k \in 1..Len(req.items) |-> LineGross(req.items[k])])
        disc == SumOver([k \in 1..Len(req.items) |-> LineDiscount(req.items[k])])
        tax  == SumOver([k \in 1..Len(req.items) |-> LineTax(req.items[k])])
        tot  == sub - disc + tax + req.adjustment + req.exciseDuty
    IN [org |-> org, status |-> "draft", number |-> NoNumber, pdf |-> FALSE,
        items |-> StoredItems(req.items),
        subTotal |-> sub, discountTotal |-> disc, taxTotal |-> tax,
        adjustment |-> req.adjustment, exciseDuty |-> req.exciseDuty,
        total |-> tot, paid |-> 0, balance |-> tot, salesOrder |-> req.salesOrder]

CreateInvoice(org, req) ==
    /\ nextInvoice <= MaxInvoices
    /\ Cardinality(DOMAIN invoices) < MaxOpenInvoices
    /\ invoices' = WithRow(invoices, nextInvoice, NewInvoice(org, req))
    /\ nextInvoice' = nextInvoice + 1
    /\ published' = {Event("InvoiceCreated", nextInvoice)}
    /\ ok' = TRUE
    /\ audit' = {}
    /\ stockUpdates' = {}
    /\ UNCHANGED <<payments, salesOrders, salesReturns, nextPayment,
                   nextOrder, nextReturn, assigned, readModel, handled, inflight>>

AllResolve(lines) == \A k \in 1..Len(lines) : lines[k].resolves

UpdatedInvoice(inv, req) ==
    LET sub  == SumOver([k \in 1..Len(req.items) |-> LineGross(req.items[k])])
        disc == SumOver([k \in 1..Len(req.items) |-> LineDiscount(req.items[k])])
        tax  == SumOver([k \in 1..Len(req.items) |-> LineTax(req.items[k])])
        tot  == sub - disc + tax + req.adjustment + req.exciseDuty
    IN [inv EXCEPT !.items = StoredItems(req.items),
                   !.subTotal = sub, !.discountTotal = disc, !.taxTotal = tax,
                   !.adjustment = req.adjustment, !.exciseDuty = req.exciseDuty,
                   !.total = tot, !.balance = tot - inv.paid]

UpdateInvoice(id, req) ==
    /\ IF id \in DOMAIN invoices /\ CanEdit(invoices[id])
       THEN IF AllResolve(req.items)
            THEN /\ invoices' = [invoices EXCEPT ![id] = UpdatedInvoice(@, req)]
                 /\ ok' = TRUE
                 /\ audit' = {}
                 /\ published' = {}
                 /\ stockUpdates' = {}
            ELSE \* ClearItems has already deleted the stored lines
                 /\ invoices' = [invoices EXCEPT ![id].items = <<>>]
                 /\ ok' = FALSE
                 /\ audit' = {}
                 /\ published' = {}
                 /\ stockUpdates' = {}
       ELSE /\ invoices' = invoices
            /\ ok' = FALSE
            /\ audit' = {}
            /\ published' = {}
            /\ stockUpdates' = {}
    /\ UNCHANGED <<payments, salesOrders, salesReturns, nextInvoice,
                   nextPayment, nextOrder, nextReturn, assigned, readModel, handled, inflight>>

\* The checks of SendInvoice in the order of the code; pdfOk says whether the
\* PDF generation succeeds
SendAcceptedAnyStatus(id, pdfOk) ==
    /\ id \in DOMAIN invoices
    /\ pdfOk
    /\ ~NumberTaken(id, GetNextInvoiceNumber(invoices[id].org))

SendAccepted(id, pdfOk) ==
    /\ id \in DOMAIN invoices
    /\ CanSend(invoices[id])
    /\ pdfOk
    /\ CanTransitionTo(invoices[id], "sent")
    /\ ~NumberTaken(id, GetNextInvoiceNumber(invoices[id].org))

SendInvoiceWithAudit(id, pdfOk, auditOk) ==
    /\ IF SendAccepted(id, pdfOk)
       THEN LET invNum == GetNextInvoiceNumber(invoices[id].org)
            IN /\ invoices' = [invoices EXCEPT ![id].number = invNum,
                                               ![id].pdf = TRUE,
                                               ![id].status = "sent"]
               /\ audit' = AuditWritten({AuditRow(id, "invoice_sent")}, auditOk)
               /\ published' = {Event("InvoiceSent", id)}
               /\ assigned' = assigned \cup {<<invoices[id].org, invNum, id>>}
               /\ ok' = ~AuditErrorReturned(auditOk)
               /\ stockUpdates' = {}
       ELSE /\ UNCHANGED <<invoices, assigned, readModel, handled, inflight>>
            /\ ok' = FALSE
            /\ audit' = {}
            /\ published' = {}
            /\ stockUpdates' = {}
    /\ UNCHANGED <<payments, salesOrders, salesReturns, nextInvoice,
                   nextPayment, nextOrder, nextReturn, readModel, handled, inflight>>

\* SendInvoice served with a working audit store
SendInvoice(id, pdfOk) == SendInvoiceWithAudit(id, pdfOk, TRUE)

PaymentsOf(id) == {p \in DOMAIN payments : payments[p].invoice = id}

\* InvoiceRepository.Delete removes the items, the payments and the invoice row
DeleteInvoice(id) ==
    /\ IF id \in DOMAIN invoices
       THEN /\ invoices' = WithoutRows(invoices, {id})
            /\ payments' = WithoutRows(payments, PaymentsOf(id))
            /\ ok' = TRUE
            /\ audit' = {}
            /\ published' = {}
            /\ stockUpdates' = {}
       ELSE /\ UNCHANGED <<invoices, payments>>
            /\ ok' = FALSE
            /\ audit' = {}
            /\ published' = {}
            /\ stockUpdates' = {}
    /\ UNCHANGED <<salesOrders, salesReturns, nextInvoice, nextPayment,
                   nextOrder, nextReturn, assigned, readModel, handled, inflight>>

\* GetInvoicePDF: an invoice without a number gets the next number on the
\* loaded copy before the PDF is rendered; pdfOk says whether the rendering
\* succeeds. A draft is not written back.
PdfCopy(id) ==
    IF invoices[id].number = NoNumber
    THEN [invoices[id] EXCEPT !.number = GetNextInvoiceNumber(invoices[id].org)]
    ELSE invoices[id]

\* A non-draft invoice is saved whole from that copy with the PDF path set
GetInvoicePDF(id, pdfOk) ==
    /\ IF /\ id \in DOMAIN invoices
          /\ pdfOk
          /\ \/ invoices[id].status = "draft"
             \/ ~NumberTaken(id, PdfCopy(id).number)
       THEN /\ invoices' = IF invoices[id].status = "draft"
                           THEN invoices
                           ELSE [invoices EXCEPT ![id] = [PdfCopy(id) EXCEPT !.pdf = TRUE]]
            /\ ok' = TRUE
       ELSE /\ UNCHANGED invoices
            /\ ok' = FALSE
    /\ audit' = {}
    /\ published' = {}
    /\ stockUpdates' = {}
    /\ UNCHANGED <<payments, salesOrders, salesReturns, nextInvoice, nextPayment,
                   nextOrder, nextReturn, assigned, readModel, handled, inflight>>

UpdateStatusWithAudit(id, newStatus, auditOk) ==
    /\ IF id \in DOMAIN invoices
       THEN /\ invoices' = [invoices EXCEPT ![id].status = newStatus]
            /\ audit' = AuditWritten({AuditRow(id, "status_change")}, auditOk)
            /\ ok' = ~AuditErrorReturned(auditOk)
            /\ published' = {}
            /\ stockUpdates' = {}
       ELSE /\ UNCHANGED <<invoices>>
            /\ ok' = FALSE
            /\ audit' = {}
            /\ published' = {}
            /\ stockUpdates' = {}
    /\ UNCHANGED <<payments, salesOrders, salesReturns, nextInvoice,
                   nextPayment, nextOrder, nextReturn, assigned, readModel, handled, inflight>>

\* UpdateStatus served with a working audit store
UpdateStatus(id, newStatus) == UpdateStatusWithAudit(id, newStatus, TRUE)

\* ----------------------------------------------------------- PaymentService
\* SalesOrderRepository.UpdateStatus: UPDATE sales_orders SET status WHERE id
SetOrderStatusNever(orders, id, status) == orders

SetOrderStatus(orders, id, status) ==
    IF id \in DOMAIN orders THEN [orders EXCEPT ![id].status = status] ELSE orders

PaymentAcceptedAnyAmount(id, amount, dateOk) ==
    /\ id \in DOMAIN invoices
    /\ CanReceivePayment(invoices[id])
    /\ dateOk

PaymentAccepted(id, amount, dateOk) ==
    /\ id \in DOMAIN invoices
    /\ CanReceivePayment(invoices[id])
    /\ ~(amount <= 0)
    /\ ~(amount > invoices[id].balance + Epsilon)
    /\ dateOk

AfterPaymentKeepingBalance(inv, amount) ==
    LET moved == [inv EXCEPT !.paid = @ + amount]
    IN [moved EXCEPT !.status = CalculateStatus(moved)]

AfterPayment(inv, amount) ==
    LET moved == [inv EXCEPT !.paid = @ + amount, !.balance = @ - amount]
    IN [moved EXCEPT !.status = CalculateStatus(moved)]

\* Payments created by RecordPayment so far: every identifier handed out, less
\* the refund rows, of which ProcessRefund creates one per sales return
RecordedPayments ==
    (nextPayment - 1) -
    Cardinality({r \in DOMAIN salesReturns : salesReturns[r].refundPayment # NoRef})

RecordPaymentWithAudit(id, amount, dateOk, auditOk) ==
    \/ /\ ~PaymentAccepted(id, amount, dateOk)
       /\ ok' = FALSE
       /\ audit' = {}
       /\ published' = {}
       /\ stockUpdates' = {}
       /\ UNCHANGED <<invoices, payments, salesOrders, salesReturns, nextInvoice,
                   nextPayment, nextOrder, nextReturn, assigned, readModel, handled, inflight>>
    \/ /\ PaymentAccepted(id, amount, dateOk)
       /\ RecordedPayments < MaxPayments
       /\ LET inv == AfterPayment(invoices[id], amount)
          IN /\ payments' = WithRow(payments, nextPayment,
                    [invoice |-> id, amount |-> amount, status |-> "completed",
                     ptype |-> "payment", salesReturn |-> NoRef])
             /\ invoices' = [invoices EXCEPT ![id] = inv]
             /\ audit' = AuditWritten({AuditRow(id, "PAYMENT_RECORDED")}, auditOk)
             /\ published' =
                    {Event("PaymentCreated", nextPayment),
                     Event("PaymentRecorded", nextPayment)} \cup
                    (IF inv.status = "paid"
                     THEN {Event("InvoiceStatusChanged", id)} ELSE {})
             /\ salesOrders' =
                    IF inv.status = "paid" /\ inv.salesOrder # NoRef
                    THEN SetOrderStatus(salesOrders, inv.salesOrder, "paid")
                    ELSE salesOrders
       /\ nextPayment' = nextPayment + 1
       /\ ok' = ~AuditErrorReturned(auditOk)
       /\ stockUpdates' = {}
       /\ UNCHANGED <<salesReturns, nextInvoice, nextOrder, nextReturn,
                   assigned, readModel, handled, inflight>>

\* RecordPayment served with a working audit store
RecordPayment(id, amount, dateOk) == RecordPaymentWithAudit(id, amount, dateOk, TRUE)

VoidAccepted(pid) ==
    /\ pid \in DOMAIN payments
    /\ CanVoid(payments[pid])
    /\ payments[pid].invoice \in DOMAIN invoices

AfterVoidKeepingPaid(inv, amount) ==
    LET moved == [inv EXCEPT !.balance = @ + amount]
    IN [moved EXCEPT !.status = CalculateStatus(moved)]

AfterVoidKeepingBalance(inv, amount) ==
    LET moved == [inv EXCEPT !.paid = @ - amount]
    IN [moved EXCEPT !.status = CalculateStatus(moved)]

AfterVoid(inv, amount) ==
    LET moved == [inv EXCEPT !.paid = @ - amount, !.balance = @ + amount]
    IN [moved EXCEPT !.status = CalculateStatus(moved)]

VoidPaymentWithAudit(pid, auditOk) ==
    /\ IF VoidAccepted(pid)
       THEN LET id  == payments[pid].invoice
                inv == AfterVoid(invoices[id], payments[pid].amount)
            IN /\ payments' = [payments EXCEPT ![pid].status = "void"]
               /\ invoices' = [invoices EXCEPT ![id] = inv]
               /\ audit' = AuditWritten({AuditRow(id, "PAYMENT_VOIDED")}, auditOk)
               /\ ok' = ~AuditErrorReturned(auditOk)
               /\ published' = {}
               /\ stockUpdates' = {}
       ELSE /\ UNCHANGED <<payments, invoices>>
            /\ ok' = FALSE
            /\ audit' = {}
            /\ published' = {}
            /\ stockUpdates' = {}
    /\ UNCHANGED <<salesOrders, salesReturns, nextInvoice, nextPayment,
                   nextOrder, nextReturn, assigned, readModel, handled, inflight>>

\* VoidPayment served with a working audit store
VoidPayment(pid) == VoidPaymentWithAudit(pid, TRUE)

\* ------------------------------------------ RecordPayment, statement by statement
\* RecordPayment holds no lock and opens no transaction: between its read of
\* the invoice, its INSERT of the payment and its Save of the invoice, other
\* requests run. A handler keeps the invoice it loaded in `copy`.
\* invoiceRepo.GetByID and the checks made on the loaded invoice
ReadInvoiceForPayment(p, id, amount, dateOk) ==
    /\ inflight[p] = Idle
    /\ IF PaymentAccepted(id, amount, dateOk)
       THEN /\ inflight' = [inflight EXCEPT ![p] =
                    [op |-> "RecordPayment", pc |-> "create", target |-> id,
                     amount |-> amount, copy |-> invoices[id]]]
            /\ UNCHANGED <<ok, audit, published, stockUpdates>>
       ELSE /\ ok' = FALSE
            /\ audit' = {}
            /\ published' = {}
            /\ stockUpdates' = {}
            /\ UNCHANGED inflight
    /\ UNCHANGED <<invoices, payments, salesOrders, salesReturns, nextInvoice,
                   nextPayment, nextOrder, nextReturn, assigned, readModel, handled>>

\* paymentRepo.Create
CreatePaymentRow(p) ==
    /\ inflight[p].op = "RecordPayment"
    /\ inflight[p].pc = "create"
    /\ nextPayment <= MaxPayments
    /\ payments' = WithRow(payments, nextPayment,
          [invoice |-> inflight[p].target, amount |-> inflight[p].amount,
           status |-> "completed", ptype |-> "payment", salesReturn |-> NoRef])
    /\ nextPayment' = nextPayment + 1
    /\ inflight' = [inflight EXCEPT ![p] =
          [op |-> "RecordPayment", pc |-> "update", target |-> inflight[p].target,
           amount |-> inflight[p].amount, copy |-> inflight[p].copy,
           payment |-> nextPayment]]
    /\ UNCHANGED <<invoices, salesOrders, salesReturns, audit, published, stockUpdates,
                   nextInvoice, nextOrder, nextReturn, assigned, ok, readModel, handled>>

\* The amounts and the status are computed on the loaded invoice, and
\* invoiceRepo.Update saves that whole row; the audit row, the events and the
\* order's status follow
SaveInvoiceAfterPayment(p) ==
    /\ inflight[p].op = "RecordPayment"
    /\ inflight[p].pc = "update"
    /\ LET id  == inflight[p].target
           inv == AfterPayment(inflight[p].copy, inflight[p].amount)
       IN /\ invoices' = WithRow(invoices, id, inv)
          /\ audit' = {AuditRow(id, "PAYMENT_RECORDED")}
          /\ published' =
                 {Event("PaymentCreated", inflight[p].payment),
                  Event("PaymentRecorded", inflight[p].payment)} \cup
                 (IF inv.status = "paid" THEN {Event("InvoiceStatusChanged", id)} ELSE {})
          /\ salesOrders' =
                 IF inv.status = "paid" /\ inv.salesOrder # NoRef
                 THEN SetOrderStatus(salesOrders, inv.salesOrder, "paid")
                 ELSE salesOrders
    /\ inflight' = [inflight EXCEPT ![p] = Idle]
    /\ ok' = TRUE
    /\ stockUpdates' = {}
    /\ UNCHANGED <<payments, salesReturns, nextInvoice, nextPayment, nextOrder,
                   nextReturn, assigned, readModel, handled>>

\* --------------------------------------------------------- domain: SalesOrder
SalesOrderStatuses ==
    {"draft", "confirmed", "invoiced", "partially_paid", "paid", "shipped",
     "completed", "cancelled"}

SalesOrderCanEdit(so) == so.status = "draft"

CanConfirm(so) == so.status = "draft"

CanCreateInvoice(so) == so.status = "confirmed" /\ so.invoice = NoRef

CanShipIgnoringDate(so) == so.status = "paid"

CanShip(so) == so.status = "paid" /\ ~so.shipped

CanReturn(so) == (so.status = "paid" \/ so.status = "shipped") /\ so.shipped

CanCancel(so) ==
    so.status = "draft" \/ (so.status = "confirmed" /\ so.invoice = NoRef)

salesOrderTransitions ==
    [s \in SalesOrderStatuses |->
        CASE s = "draft"          -> {"confirmed", "cancelled"}
          [] s = "confirmed"      -> {"invoiced", "cancelled"}
          [] s = "invoiced"       -> {"partially_paid", "paid"}
          [] s = "partially_paid" -> {"paid"}
          [] s = "paid"           -> {"shipped"}
          [] s = "shipped"        -> {"completed"}
          [] s = "completed"      -> {}
          [] s = "cancelled"      -> {}]

SalesOrderCanTransitionTo(so, newStatus) ==
    /\ so.status \in DOMAIN salesOrderTransitions
    /\ newStatus \in salesOrderTransitions[so.status]

\* SalesOrder.CalculateTotals over the lines loaded into the entity
SalesOrderCalculateTotals(so) ==
    LET sub  == SumOver([k \in 1..Len(so.items) |-> LineGross(so.items[k])])
        disc == SumOver([k \in 1..Len(so.items) |-> LineDiscount(so.items[k])])
        tax  == SumOver([k \in 1..Len(so.items) |-> LineTax(so.items[k])])
    IN [so EXCEPT !.subTotal = sub, !.discountTotal = disc, !.taxTotal = tax,
                  !.total = sub - disc + tax - so.tds + so.tcs]

SalesOrderValidate(so) ==
    /\ Len(so.items) # 0
    /\ ~(so.total < 0)
    /\ \A k \in 1..Len(so.items) :
          ~(so.items[k].quantity <= 0) /\ ~(so.items[k].unitPrice < 0)

\* Requests offered to CreateSalesOrder
OrderRequests ==
    { [items |-> <<Line(1, 2, 0, 0, TRUE)>>, tds |-> 0, tcs |-> 0],
      [items |-> <<Line(0, 1, 0, 0, TRUE)>>, tds |-> 0, tcs |-> 0] }

\* Requests offered to UpdateSalesOrder: hasItems is req.Items != nil, and an
\* optional amount is the empty sequence when the request leaves it out
OrderUpdates ==
    { [hasItems |-> TRUE, items |-> <<Line(1, 1, 0, 0, TRUE)>>, tds |-> <<>>, tcs |-> <<>>],
      [hasItems |-> TRUE, items |-> <<>>, tds |-> <<>>, tcs |-> <<>>] }

\* Outcomes of the inventory collaborator for one request
InventoryModes == {"absent", "ok", "short", "checkError", "updateError"}

\* ------------------------------------------------------- SalesOrderService
NewOrder(org, req) ==
    SalesOrderCalculateTotals(
        [org |-> org, status |-> "draft", number |-> NoNumber,
         items |-> StoredItems(req.items),
         subTotal |-> 0, discountTotal |-> 0, taxTotal |-> 0,
         tds |-> req.tds, tcs |-> req.tcs, total |-> 0,
         invoice |-> NoRef, shipped |-> FALSE])

\* The availability check runs when the inventory client is set and the request
\* has lines
StockChecked(req, inventory) == inventory # "absent" /\ Len(req.items) > 0

AvailabilityIgnored(req, inventory) == FALSE

\* CheckStockAvailability returns an error or a non-empty list of shortages
AvailabilityFails(req, inventory) ==
    StockChecked(req, inventory) /\ inventory \in {"short", "checkError"}

CreateSalesOrder(org, req, inventory) ==
    LET checked == StockChecked(req, inventory)
        so      == NewOrder(org, req)
    IN IF \/ AvailabilityFails(req, inventory)
          \/ ~SalesOrderValidate(so)
       THEN /\ ok' = FALSE
            /\ audit' = {}
            /\ published' = {}
            /\ stockUpdates' = {}
            /\ UNCHANGED <<invoices, payments, salesOrders, salesReturns, nextInvoice,
                   nextPayment, nextOrder, nextReturn, assigned, readModel, handled, inflight>>
       ELSE /\ nextOrder <= MaxOrders
            /\ salesOrders' = WithRow(salesOrders, nextOrder, so)
            /\ nextOrder' = nextOrder + 1
            /\ IF checked /\ inventory = "updateError"
               THEN \* the order is stored, the error is returned, no event
                    /\ ok' = FALSE
                    /\ audit' = {}
                    /\ published' = {}
                    /\ stockUpdates' = {}
               ELSE /\ stockUpdates' =
                          IF checked
                          THEN {<<"sales", "sales_order", nextOrder>>}
                          ELSE {}
                    /\ published' =
                          {Event("sales_order.created", nextOrder)}
                    /\ ok' = TRUE
                    /\ audit' = {}
            /\ UNCHANGED <<invoices, payments, salesReturns, nextInvoice, nextPayment,
                   nextReturn, assigned, readModel, handled, inflight>>

\* The entity UpdateSalesOrder builds from the loaded order and the request
EditedOrder(so, req) ==
    SalesOrderCalculateTotals(
        [so EXCEPT !.tds = IF req.tds = <<>> THEN @ ELSE req.tds[1],
                   !.tcs = IF req.tcs = <<>> THEN @ ELSE req.tcs[1],
                   !.items = IF req.hasItems THEN StoredItems(req.items) ELSE @])

\* Save with FullSaveAssociations upserts the entity's lines and deletes none:
\* the lines stored before stay in sales_order_items next to the new ones
SavedOrder(so, edited, req) ==
    [edited EXCEPT !.items = IF req.hasItems THEN so.items \o edited.items ELSE @]

UpdateSalesOrder(id, req) ==
    \/ /\ ~( /\ id \in DOMAIN salesOrders
             /\ SalesOrderCanEdit(salesOrders[id])
             /\ SalesOrderValidate(EditedOrder(salesOrders[id], req)) )
       /\ ok' = FALSE
       /\ audit' = {}
       /\ published' = {}
       /\ stockUpdates' = {}
       /\ UNCHANGED <<salesOrders>>
       /\ UNCHANGED <<invoices, payments, salesReturns, nextInvoice, nextPayment,
                   nextOrder, nextReturn, assigned, readModel, handled, inflight>>
    \/ /\ id \in DOMAIN salesOrders
       /\ SalesOrderCanEdit(salesOrders[id])
       /\ SalesOrderValidate(EditedOrder(salesOrders[id], req))
       /\ Len(SavedOrder(salesOrders[id], EditedOrder(salesOrders[id], req), req).items)
             <= MaxOrderLines
       /\ salesOrders' = [salesOrders EXCEPT
             ![id] = SavedOrder(@, EditedOrder(@, req), req)]
       /\ published' = {Event("sales_order.updated", id)}
       /\ ok' = TRUE
       /\ audit' = {}
       /\ stockUpdates' = {}
       /\ UNCHANGED <<invoices, payments, salesReturns, nextInvoice, nextPayment,
                   nextOrder, nextReturn, assigned, readModel, handled, inflight>>

\* count of the organization's orders whose number carries today's prefix
CountOrdersToday(org) ==
    Cardinality({o \in DOMAIN salesOrders :
        /\ salesOrders[o].org = org
        /\ salesOrders[o].number # NoNumber
        /\ salesOrders[o].number[1] = Today})

GenerateOrderNumber(org) == <<Today, CountOrdersToday(org) + 1>>

\* order_number is UNIQUE in sales_orders
OrderNumberTaken(id, number) ==
    \E o \in DOMAIN salesOrders : o # id /\ salesOrders[o].number = number

ConfirmSalesOrder(id) ==
    /\ IF /\ id \in DOMAIN salesOrders
          /\ CanConfirm(salesOrders[id])
          /\ SalesOrderCanTransitionTo(salesOrders[id], "confirmed")
          /\ ~OrderNumberTaken(id, GenerateOrderNumber(salesOrders[id].org))
       THEN /\ salesOrders' = [salesOrders EXCEPT
                  ![id].number = GenerateOrderNumber(salesOrders[id].org),
                  ![id].status = "confirmed"]
            /\ published' = {Event("sales_order.confirmed", id)}
            /\ ok' = TRUE
            /\ audit' = {}
            /\ stockUpdates' = {}
       ELSE /\ UNCHANGED <<salesOrders>>
            /\ ok' = FALSE
            /\ audit' = {}
            /\ published' = {}
            /\ stockUpdates' = {}
    /\ UNCHANGED <<invoices, payments, salesReturns, nextInvoice, nextPayment,
                   nextOrder, nextReturn, assigned, readModel, handled, inflight>>

InvoiceOfOrder(id, so) ==
    [org |-> so.org, status |-> "draft", number |-> NoNumber, pdf |-> FALSE,
     items |-> so.items,
     subTotal |-> so.subTotal, discountTotal |-> so.discountTotal,
     taxTotal |-> so.taxTotal, adjustment |-> 0, exciseDuty |-> 0,
     total |-> so.total, paid |-> 0, balance |-> so.total, salesOrder |-> id]

CreateInvoiceFromOrder(id) ==
    \/ /\ ~(id \in DOMAIN salesOrders /\ CanCreateInvoice(salesOrders[id]))
       /\ ok' = FALSE
       /\ audit' = {}
       /\ published' = {}
       /\ stockUpdates' = {}
       /\ UNCHANGED <<invoices, salesOrders, nextInvoice>>
       /\ UNCHANGED <<payments, salesReturns, nextPayment, nextOrder, nextReturn, assigned, readModel, handled, inflight>>
    \/ /\ id \in DOMAIN salesOrders
       /\ CanCreateInvoice(salesOrders[id])
       /\ nextInvoice <= MaxInvoices
       /\ Cardinality(DOMAIN invoices) < MaxOpenInvoices
       /\ invoices' = WithRow(invoices, nextInvoice, InvoiceOfOrder(id, salesOrders[id]))
       /\ salesOrders' = [salesOrders EXCEPT ![id].invoice = nextInvoice,
                                             ![id].status = "invoiced"]
       /\ nextInvoice' = nextInvoice + 1
       /\ published' =
             {Event("billing.invoice.created", nextInvoice),
              Event("sales_order.invoiced", id)}
       /\ ok' = TRUE
       /\ audit' = {}
       /\ stockUpdates' = {}
       /\ UNCHANGED <<payments, salesReturns, nextPayment, nextOrder, nextReturn, assigned, readModel, handled, inflight>>

\* CreateInvoiceFromOrder, statement by statement: it holds no lock and opens
\* no transaction, and a handler keeps the order it loaded in `copy`.
\* salesOrderRepo.FindByID and CanCreateInvoice on the loaded order
ReadOrderForInvoice(p, id) ==
    /\ inflight[p] = Idle
    /\ IF id \in DOMAIN salesOrders /\ CanCreateInvoice(salesOrders[id])
       THEN /\ inflight' = [inflight EXCEPT ![p] =
                    [op |-> "CreateInvoiceFromOrder", pc |-> "create", target |-> id,
                     copy |-> salesOrders[id]]]
            /\ UNCHANGED <<ok, audit, published, stockUpdates>>
       ELSE /\ ok' = FALSE
            /\ audit' = {}
            /\ published' = {}
            /\ stockUpdates' = {}
            /\ UNCHANGED inflight
    /\ UNCHANGED <<invoices, payments, salesOrders, salesReturns, nextInvoice,
                   nextPayment, nextOrder, nextReturn, assigned, readModel, handled>>

\* invoiceRepo.Create of the invoice built from the loaded order
CreateInvoiceRow(p) ==
    /\ inflight[p].op = "CreateInvoiceFromOrder"
    /\ inflight[p].pc = "create"
    /\ nextInvoice <= MaxInvoices
    /\ invoices' = WithRow(invoices, nextInvoice,
                           InvoiceOfOrder(inflight[p].target, inflight[p].copy))
    /\ nextInvoice' = nextInvoice + 1
    /\ inflight' = [inflight EXCEPT ![p] =
          [op |-> "CreateInvoiceFromOrder", pc |-> "update",
           target |-> inflight[p].target, copy |-> inflight[p].copy,
           invoice |-> nextInvoice]]
    /\ UNCHANGED <<payments, salesOrders, salesReturns, audit, published, stockUpdates,
                   nextPayment, nextOrder, nextReturn, assigned, ok, readModel, handled>>

\* salesOrderRepo.Update saves the loaded order with the invoice reference and
\* the invoiced status; the two events follow
SaveOrderAfterInvoice(p) ==
    /\ inflight[p].op = "CreateInvoiceFromOrder"
    /\ inflight[p].pc = "update"
    /\ salesOrders' = WithRow(salesOrders, inflight[p].target,
          [inflight[p].copy EXCEPT !.invoice = inflight[p].invoice,
                                   !.status = "invoiced"])
    /\ published' =
          {Event("billing.invoice.created", inflight[p].invoice),
           Event("sales_order.invoiced", inflight[p].target)}
    /\ inflight' = [inflight EXCEPT ![p] = Idle]
    /\ ok' = TRUE
    /\ audit' = {}
    /\ stockUpdates' = {}
    /\ UNCHANGED <<invoices, payments, salesReturns, nextInvoice, nextPayment,
                   nextOrder, nextReturn, assigned, readModel, handled>>

MarkAsShipped(id) ==
    /\ IF /\ id \in DOMAIN salesOrders
          /\ CanShip(salesOrders[id])
          /\ SalesOrderCanTransitionTo(salesOrders[id], "shipped")
       THEN /\ salesOrders' = [salesOrders EXCEPT ![id].status = "shipped",
                                                  ![id].shipped = TRUE]
            /\ published' = {Event("sales_order.shipped", id)}
            /\ ok' = TRUE
            /\ audit' = {}
            /\ stockUpdates' = {}
       ELSE /\ UNCHANGED <<salesOrders>>
            /\ ok' = FALSE
            /\ audit' = {}
            /\ published' = {}
            /\ stockUpdates' = {}
    /\ UNCHANGED <<invoices, payments, salesReturns, nextInvoice, nextPayment,
                   nextOrder, nextReturn, assigned, readModel, handled, inflight>>

CancelSalesOrder(id) ==
    /\ IF /\ id \in DOMAIN salesOrders
          /\ CanCancel(salesOrders[id])
          /\ SalesOrderCanTransitionTo(salesOrders[id], "cancelled")
       THEN /\ salesOrders' = [salesOrders EXCEPT ![id].status = "cancelled"]
            /\ published' = {Event("sales_order.cancelled", id)}
            /\ ok' = TRUE
            /\ audit' = {}
            /\ stockUpdates' = {}
       ELSE /\ UNCHANGED <<salesOrders>>
            /\ ok' = FALSE
            /\ audit' = {}
            /\ published' = {}
            /\ stockUpdates' = {}
    /\ UNCHANGED <<invoices, payments, salesReturns, nextInvoice, nextPayment,
                   nextOrder, nextReturn, assigned, readModel, handled, inflight>>

\* -------------------------------------------------------- domain: SalesReturn
SalesReturnStatuses == {"draft", "approved", "received", "refunded"}

CanReceive(sr) == sr.status = "approved"

SalesReturnCanRefundAnyStatus(sr) == sr.refundPayment = NoRef

SalesReturnCanRefund(sr) == sr.status = "received" /\ sr.refundPayment = NoRef

salesReturnTransitions ==
    [s \in SalesReturnStatuses |->
        CASE s = "draft"    -> {"approved"}
          [] s = "approved" -> {"received"}
          [] s = "received" -> {"refunded"}
          [] s = "refunded" -> {}]

SalesReturnCanTransitionTo(sr, newStatus) ==
    /\ sr.status \in DOMAIN salesReturnTransitions
    /\ newStatus \in salesReturnTransitions[sr.status]

ReturnLineTotal(l) == (l.quantity * l.unitPrice) + l.tax

\* SalesReturn.CalculateTotals
ReturnAmount(lines) == SumOver([k \in 1..Len(lines) |-> ReturnLineTotal(lines[k])])

\* originalItems are the order's stored lines; a return line names one by its
\* position, and position 0 is an identifier no line of the order carries
ValidateReturnQuantityNoUpperBound(lines, originalItems) ==
    \A k \in 1..Len(lines) :
        /\ lines[k].orderItem \in 1..Len(originalItems)
        /\ ~(lines[k].quantity <= 0)

ValidateReturnQuantity(lines, originalItems) ==
    \A k \in 1..Len(lines) :
        /\ lines[k].orderItem \in 1..Len(originalItems)
        /\ ~(lines[k].quantity <= 0)
        /\ ~(lines[k].quantity > originalItems[lines[k].orderItem].quantity)

SalesReturnValidate(lines, reason) ==
    /\ Len(lines) # 0
    /\ ~(ReturnAmount(lines) < 0)
    /\ reason

ReturnLine(k, q, p, t) == [orderItem |-> k, quantity |-> q, unitPrice |-> p, tax |-> t]

\* Requests offered to CreateSalesReturn; reason says the reason text is not empty
ReturnRequests ==
    { [items |-> <<ReturnLine(1, 1, 3, 0)>>, reason |-> TRUE],
      [items |-> <<ReturnLine(1, 3, 1, 0)>>, reason |-> TRUE],
      [items |-> <<ReturnLine(0, 1, 1, 0)>>, reason |-> TRUE],
      [items |-> <<ReturnLine(1, 1, 2, 0)>>, reason |-> FALSE] }

\* ------------------------------------------------------ SalesReturnService
CountReturnsToday(org) ==
    Cardinality({r \in DOMAIN salesReturns :
        /\ salesReturns[r].org = org
        /\ salesReturns[r].number # NoNumber
        /\ salesReturns[r].number[1] = Today})

GenerateReturnNumber(org) == <<Today, CountReturnsToday(org) + 1>>

\* return_number is UNIQUE in sales_returns
ReturnNumberTaken(number) ==
    \E r \in DOMAIN salesReturns : salesReturns[r].number = number

ReturnAccepted(org, orderId, req) ==
    /\ orderId \in DOMAIN salesOrders
    /\ CanReturn(salesOrders[orderId])
    /\ ValidateReturnQuantity(req.items, salesOrders[orderId].items)
    /\ SalesReturnValidate(req.items, req.reason)
    /\ ~ReturnNumberTaken(GenerateReturnNumber(org))

\* limit is the number of sales-return rows the store holds at most
CreateSalesReturnWithin(org, orderId, req, limit) ==
    \/ /\ ~ReturnAccepted(org, orderId, req)
       /\ ok' = FALSE
       /\ audit' = {}
       /\ published' = {}
       /\ stockUpdates' = {}
       /\ UNCHANGED <<salesReturns, nextReturn>>
       /\ UNCHANGED <<invoices, payments, salesOrders, nextInvoice, nextPayment,
                   nextOrder, assigned, readModel, handled, inflight>>
    \/ /\ ReturnAccepted(org, orderId, req)
       /\ nextReturn <= limit
       /\ salesReturns' = WithRow(salesReturns, nextReturn,
             [org |-> org, order |-> orderId, status |-> "approved",
              number |-> GenerateReturnNumber(org),
              amount |-> ReturnAmount(req.items), items |-> req.items,
              refundPayment |-> NoRef])
       /\ nextReturn' = nextReturn + 1
       /\ published' = {Event("sales_return.created", nextReturn)}
       /\ ok' = TRUE
       /\ audit' = {}
       /\ stockUpdates' = {}
       /\ UNCHANGED <<invoices, payments, salesOrders, nextInvoice, nextPayment,
                   nextOrder, assigned, readModel, handled, inflight>>

CreateSalesReturn(org, orderId, req) ==
    CreateSalesReturnWithin(org, orderId, req, MaxReturns)

ReceiveReturn(id) ==
    /\ IF /\ id \in DOMAIN salesReturns
          /\ CanReceive(salesReturns[id])
          /\ SalesReturnCanTransitionTo(salesReturns[id], "received")
       THEN /\ salesReturns' = [salesReturns EXCEPT ![id].status = "received"]
            /\ published' = {Event("sales_return.received", id)}
            /\ ok' = TRUE
            /\ audit' = {}
            /\ stockUpdates' = {}
       ELSE /\ UNCHANGED <<salesReturns>>
            /\ ok' = FALSE
            /\ audit' = {}
            /\ published' = {}
            /\ stockUpdates' = {}
    /\ UNCHANGED <<invoices, payments, salesOrders, nextInvoice, nextPayment,
                   nextOrder, nextReturn, assigned, readModel, handled, inflight>>

RefundAccepted(id) ==
    /\ id \in DOMAIN salesReturns
    /\ SalesReturnCanRefund(salesReturns[id])
    /\ salesReturns[id].order \in DOMAIN salesOrders
    /\ salesOrders[salesReturns[id].order].invoice # NoRef
    /\ salesOrders[salesReturns[id].order].invoice \in DOMAIN invoices
    /\ CanRefund(invoices[salesOrders[salesReturns[id].order].invoice])

AfterRefund(inv, returnAmount) ==
    [inv EXCEPT !.paid = @ - returnAmount, !.balance = @ + returnAmount]

ProcessRefund(id, inventory) ==
    \/ /\ ~RefundAccepted(id)
       /\ ok' = FALSE
       /\ audit' = {}
       /\ published' = {}
       /\ stockUpdates' = {}
       /\ UNCHANGED <<invoices, payments, salesReturns, nextPayment>>
       /\ UNCHANGED <<salesOrders, nextInvoice, nextOrder, nextReturn,
                   assigned, readModel, handled, inflight>>
    \/ /\ RefundAccepted(id)
       /\ LET sr  == salesReturns[id]
              inv == salesOrders[sr.order].invoice
          IN /\ payments' = WithRow(payments, nextPayment,
                    [invoice |-> inv, amount |-> -sr.amount, status |-> "completed",
                     ptype |-> "refund", salesReturn |-> id])
             /\ invoices' = [invoices EXCEPT ![inv] = AfterRefund(@, sr.amount)]
             /\ salesReturns' = [salesReturns EXCEPT
                    ![id].status = "refunded", ![id].refundPayment = nextPayment]
             /\ stockUpdates' =
                    IF inventory = "ok" /\ Len(sr.items) > 0
                    THEN {<<"return", "sales_return", id>>}
                    ELSE {}
             /\ published' =
                    {Event("billing.payment.refund.recorded", nextPayment),
                     Event("sales_return.refunded", id)}
       /\ nextPayment' = nextPayment + 1
       /\ ok' = TRUE
       /\ audit' = {}
       /\ UNCHANGED <<salesOrders, nextInvoice, nextOrder, nextReturn,
                   assigned, readModel, handled, inflight>>

\* ProcessRefund, statement by statement: it holds no lock and opens no
\* transaction, so what it has written stays written when a later statement
\* fails. A handler keeps the return and the invoice it loaded.
\* The three reads and the checks made on the loaded rows
ReadReturnForRefund(p, id) ==
    /\ inflight[p] = Idle
    /\ IF RefundAccepted(id)
       THEN /\ inflight' = [inflight EXCEPT ![p] =
                    [op |-> "ProcessRefund", pc |-> "create", target |-> id,
                     copy |-> salesReturns[id],
                     invoice |-> salesOrders[salesReturns[id].order].invoice,
                     invoiceCopy |->
                         invoices[salesOrders[salesReturns[id].order].invoice],
                     payment |-> NoRef]]
            /\ UNCHANGED <<ok, audit, published, stockUpdates>>
       ELSE /\ ok' = FALSE
            /\ audit' = {}
            /\ published' = {}
            /\ stockUpdates' = {}
            /\ UNCHANGED inflight
    /\ UNCHANGED <<invoices, payments, salesOrders, salesReturns, nextInvoice,
                   nextPayment, nextOrder, nextReturn, assigned, readModel, handled>>

RefundPaymentsOf(r) == {q \in DOMAIN payments : payments[q].salesReturn = r}

\* paymentRepo.Create of the refund payment
CreateRefundPayment(p) ==
    /\ inflight[p].op = "ProcessRefund"
    /\ inflight[p].pc = "create"
    /\ Cardinality(RefundPaymentsOf(inflight[p].target)) < MaxRefunds
    /\ payments' = WithRow(payments, nextPayment,
          [invoice |-> inflight[p].invoice, amount |-> -inflight[p].copy.amount,
           status |-> "completed", ptype |-> "refund",
           salesReturn |-> inflight[p].target])
    /\ nextPayment' = nextPayment + 1
    /\ inflight' = [inflight EXCEPT ![p].pc = "invoice", ![p].payment = nextPayment]
    /\ UNCHANGED <<invoices, salesOrders, salesReturns, audit, published, stockUpdates,
                   nextInvoice, nextOrder, nextReturn, assigned, ok, readModel, handled>>

\* invoiceRepo.Update of the loaded invoice; saveOk says whether the store
\* accepts the write, and when it does not the request returns the error
SaveInvoiceAfterRefund(p, saveOk) ==
    /\ inflight[p].op = "ProcessRefund"
    /\ inflight[p].pc = "invoice"
    /\ IF saveOk
       THEN /\ invoices' = WithRow(invoices, inflight[p].invoice,
                    AfterRefund(inflight[p].invoiceCopy, inflight[p].copy.amount))
            /\ inflight' = [inflight EXCEPT ![p].pc = "return"]
            /\ UNCHANGED <<ok, audit, published, stockUpdates>>
       ELSE /\ UNCHANGED invoices
            /\ inflight' = [inflight EXCEPT ![p] = Idle]
            /\ ok' = FALSE
            /\ audit' = {}
            /\ published' = {}
            /\ stockUpdates' = {}
    /\ UNCHANGED <<payments, salesOrders, salesReturns, nextInvoice, nextPayment,
                   nextOrder, nextReturn, assigned, readModel, handled>>

\* CanTransitionTo on the loaded return, salesReturnRepo.Update, the stock
\* update and the two events
SaveReturnAfterRefund(p, saveOk, inventory) ==
    /\ inflight[p].op = "ProcessRefund"
    /\ inflight[p].pc = "return"
    /\ IF saveOk /\ SalesReturnCanTransitionTo(inflight[p].copy, "refunded")
       THEN /\ salesReturns' = WithRow(salesReturns, inflight[p].target,
                    [inflight[p].copy EXCEPT !.status = "refunded",
                                             !.refundPayment = inflight[p].payment])
            /\ stockUpdates' =
                    IF inventory = "ok" /\ Len(inflight[p].copy.items) > 0
                    THEN {<<"return", "sales_return", inflight[p].target>>}
                    ELSE {}
            /\ published' =
                    {Event("billing.payment.refund.recorded", inflight[p].payment),
                     Event("sales_return.refunded", inflight[p].target)}
            /\ ok' = TRUE
       ELSE /\ UNCHANGED salesReturns
            /\ stockUpdates' = {}
            /\ published' = {}
            /\ ok' = FALSE
    /\ audit' = {}
    /\ inflight' = [inflight EXCEPT ![p] = Idle]
    /\ UNCHANGED <<invoices, payments, salesOrders, nextInvoice, nextPayment,
                   nextOrder, nextReturn, assigned, readModel, handled>>

\* ------------------------------------------------------------ event projector
\* The read-model tables are sets of rows, each row carrying its id column.
\* A string is the sequence of its words: "" is <<>>, and
\* strings.TrimSpace(fmt.Sprintf("%s %s", a, b)) of two such strings is a \o b.
\* Columns a handler treats exactly like a column kept here (phone and the
\* address parts like email, description and status like name) are left out.
RowIds == 1..MaxRows

Times == 1..MaxTime

Words(w) == {<<>>, <<w>>}

JoinNames(a, b) == a \o b

HasRow(table, id) == \E r \in table : r.id = id

RowOf(table, id) == CHOOSE r \in table : r.id = id

\* INSERT without the ON CONFLICT clause on a table without its key
InsertOnly(table, row) == table \cup {row}

\* Create with clause.OnConflict{UpdateAll: true}
Upsert(table, row) == {r \in table : r.id # row.id} \cup {row}

PatchOrInsert(table, id, updates) ==
    IF \E r \in table : r.id = id
    THEN {IF r.id = id
          THEN [c \in DOMAIN r |-> IF c \in DOMAIN updates THEN updates[c] ELSE r[c]]
          ELSE r : r \in table}
    ELSE table \cup {[c \in DOMAIN updates \cup {"id"} |->
                        IF c = "id" THEN id ELSE updates[c]]}

\* Model(..).Where("id = ?", id).Updates(updates): the listed columns of the
\* rows with that id
Patch(table, id, updates) ==
    {IF r.id = id
     THEN [c \in DOMAIN r |-> IF c \in DOMAIN updates THEN updates[c] ELSE r[c]]
     ELSE r : r \in table}

DeleteRow(table, id) == {r \in table : r.id # id}

\* ---- customers
CustomerPayloads ==
    [displayName : Words("D"), firstName : Words("F"), lastName : Words("L"),
     companyName : Words("C"), email : Words("e")]

UpdatedFieldSets == {{}, {"display_name"}}

CustomerMessages ==
    { [aggregate |-> "customer", type |-> "created", id |-> id, occurredAt |-> at,
       payload |-> p, updatedFields |-> {}] :
          id \in RowIds, at \in Times, p \in CustomerPayloads }
    \cup
    { [aggregate |-> "customer", type |-> "updated", id |-> id, occurredAt |-> at,
       payload |-> p, updatedFields |-> f] :
          id \in RowIds, at \in Times, p \in CustomerPayloads, f \in UpdatedFieldSets }
    \cup
    { [aggregate |-> "customer", type |-> "deleted", id |-> id, occurredAt |-> at,
       payload |-> p, updatedFields |-> {}] :
          id \in RowIds, at \in Times, p \in {q \in CustomerPayloads : q.displayName = <<>>
              /\ q.firstName = <<>> /\ q.lastName = <<>> /\ q.companyName = <<>> /\ q.email = <<>>} }

CreatedDisplayName(p) ==
    LET composed == IF p.firstName # <<>> \/ p.lastName # <<>>
                    THEN JoinNames(p.firstName, p.lastName)
                    ELSE p.companyName
        chosen   == IF p.displayName = <<>> THEN composed ELSE p.displayName
    IN IF chosen = <<>> THEN <<"Unknown", "Customer">> ELSE chosen

\* The display_name entry of the updates map, as a set of at most one value
UpdatedDisplayName(customers, id, p, fields) ==
    IF p.displayName # <<>> \/ "display_name" \in fields
    THEN {p.displayName}
    ELSE IF p.firstName # <<>> /\ p.lastName # <<>>
    THEN {JoinNames(p.firstName, p.lastName)}
    ELSE IF p.firstName = <<>> /\ p.lastName = <<>>
    THEN {}
    ELSE IF ~HasRow(customers, id)
    THEN {}
    ELSE IF p.firstName = <<>>
    THEN {JoinNames(RowOf(customers, id).displayName, p.lastName)}
    ELSE {JoinNames(p.firstName, RowOf(customers, id).displayName)}

handleCustomerEvent(rm, msg) ==
    LET p == msg.payload
    IN CASE msg.type = "created" ->
              [rm EXCEPT !.customers = Upsert(@,
                  [id |-> msg.id, displayName |-> CreatedDisplayName(p),
                   companyName |-> p.companyName, email |-> p.email,
                   updatedAt |-> msg.occurredAt])]
         [] msg.type = "updated" ->
              LET name == UpdatedDisplayName(rm.customers, msg.id, p, msg.updatedFields)
                  cols == {"updatedAt"}
                          \cup (IF p.companyName # <<>> \/ "company_name" \in msg.updatedFields
                                THEN {"companyName"} ELSE {})
                          \cup (IF p.email # <<>> \/ "email" \in msg.updatedFields
                                THEN {"email"} ELSE {})
                          \cup (IF name # {} THEN {"displayName"} ELSE {})
                  updates == [c \in cols |->
                                 CASE c = "updatedAt"   -> msg.occurredAt
                                   [] c = "companyName" -> p.companyName
                                   [] c = "email"       -> p.email
                                   [] c = "displayName" -> CHOOSE n \in name : TRUE]
              IN [rm EXCEPT !.customers = Patch(@, msg.id, updates)]
         [] OTHER -> rm

\* ---- contacts
\* isPrimary of an updated payload is a *bool: "nil" when the field is absent
ContactPayloads ==
    [firstName : Words("F"), lastName : Words("L"), isPrimary : {"nil", "true"},
     company : {NoRef, 1}]

ContactMessages ==
    { [aggregate |-> "contact", type |-> ty, id |-> id, occurredAt |-> at,
       payload |-> p, updatedFields |-> {}] :
          ty \in {"created", "updated"}, id \in RowIds, at \in Times,
          p \in ContactPayloads }
    \cup
    { [aggregate |-> "contact", type |-> "updated", id |-> id, occurredAt |-> at,
       payload |-> p, updatedFields |-> {"last_name"}] :
          id \in RowIds, at \in Times, p \in {q \in ContactPayloads : q.lastName = <<>>} }

handleContactEvent(rm, msg) ==
    LET p == msg.payload
    IN CASE msg.type = "created" ->
              [rm EXCEPT !.contacts = Upsert(@,
                  [id |-> msg.id, customer |-> p.company,
                   firstName |-> p.firstName, lastName |-> p.lastName,
                   isPrimary |-> (IF p.isPrimary = "true" THEN "true" ELSE "false"),
                   updatedAt |-> msg.occurredAt])]
         [] msg.type = "updated" ->
              LET cols == {"updatedAt"}
                          \cup (IF p.firstName # <<>> \/ "first_name" \in msg.updatedFields
                                THEN {"firstName"} ELSE {})
                          \cup (IF p.lastName # <<>> \/ "last_name" \in msg.updatedFields
                                THEN {"lastName"} ELSE {})
                          \cup (IF p.isPrimary # "nil" \/ "is_primary" \in msg.updatedFields
                                THEN {"isPrimary"} ELSE {})
                          \cup (IF p.company # NoRef THEN {"customer"} ELSE {})
                  updates == [c \in cols |->
                                 CASE c = "updatedAt" -> msg.occurredAt
                                   [] c = "firstName" -> p.firstName
                                   [] c = "lastName"  -> p.lastName
                                   [] c = "isPrimary" -> p.isPrimary
                                   [] c = "customer"  -> p.company]
              IN [rm EXCEPT !.contacts = Patch(@, msg.id, updates)]
         [] OTHER -> rm

\* ---- items, services and parts
\* SalesInfo and PurchaseInfo are maps: a key that is absent (or whose value
\* has another type) is -1 for an amount and "absent" for a currency; the nil
\* map and the empty map have every key absent
InfoMap(price, rate, currency) ==
    [selling_price |-> price, rate |-> rate, selling_currency |-> currency]

SalesInfos ==
    { InfoMap(-1, -1, "absent"), InfoMap(2, -1, "absent"), InfoMap(-1, 1, "absent"),
      InfoMap(0, 1, "absent"), InfoMap(2, -1, "USD") }

PurchaseInfos == { [cost_currency |-> "absent"], [cost_currency |-> "EUR"] }

ItemMessages ==
    { [aggregate |-> "item", type |-> ty, id |-> id, occurredAt |-> at,
       payload |-> [name |-> n, type |-> k, salesInfo |-> s, purchaseInfo |-> b],
       updatedFields |-> f] :
          ty \in {"created", "updated"}, id \in RowIds, at \in Times,
          n \in Words("N"), k \in {"", "goods"},
          s \in SalesInfos, b \in PurchaseInfos, f \in {{}} }
    \cup
    { [aggregate |-> "item", type |-> "updated", id |-> id, occurredAt |-> at,
       payload |-> [name |-> <<>>, type |-> k, salesInfo |-> s, purchaseInfo |-> b],
       updatedFields |-> {"name"}] :
          id \in RowIds, at \in Times, k \in {"", "goods"},
          s \in SalesInfos, b \in PurchaseInfos }
    \cup
    { [aggregate |-> "item", type |-> "deleted", id |-> id, occurredAt |-> at,
       payload |-> [name |-> <<>>, type |-> "", salesInfo |-> InfoMap(-1, -1, "absent"),
                    purchaseInfo |-> [cost_currency |-> "absent"]],
       updatedFields |-> {}] : id \in RowIds, at \in Times }

ItemType(k) == IF k = "service" THEN "service" ELSE IF k = "goods" THEN "goods" ELSE "part"

CreatedSellingPrice(s) ==
    LET direct == IF s.selling_price # -1 THEN s.selling_price ELSE 0
    IN IF s.rate # -1 /\ direct = 0 THEN s.rate ELSE direct

CreatedCurrency(s, b) ==
    LET selling == IF s.selling_currency # "absent" THEN s.selling_currency ELSE ""
    IN IF selling = "" /\ b.cost_currency # "absent" THEN b.cost_currency ELSE selling

handleItemEvent(rm, msg) ==
    LET p == msg.payload
    IN CASE msg.type = "created" ->
              [rm EXCEPT !.items = Upsert(@,
                  [id |-> msg.id, sku |-> <<>>, name |-> p.name,
                   itemType |-> ItemType(p.type),
                   sellingPrice |-> CreatedSellingPrice(p.salesInfo),
                   currency |-> CreatedCurrency(p.salesInfo, p.purchaseInfo),
                   updatedAt |-> msg.occurredAt])]
         [] msg.type = "updated" ->
              LET s == p.salesInfo
                  b == p.purchaseInfo
                  cols == {"updatedAt"}
                          \cup (IF p.name # <<>> \/ "name" \in msg.updatedFields
                                THEN {"name"} ELSE {})
                          \cup (IF p.type # "" \/ "type" \in msg.updatedFields
                                THEN {"itemType"} ELSE {})
                          \cup (IF s.selling_price # -1 \/ s.rate # -1
                                THEN {"sellingPrice"} ELSE {})
                          \cup (IF s.selling_currency # "absent" \/ b.cost_currency # "absent"
                                THEN {"currency"} ELSE {})
                  updates == [c \in cols |->
                                 CASE c = "updatedAt"    -> msg.occurredAt
                                   [] c = "name"         -> p.name
                                   [] c = "itemType"     -> ItemType(p.type)
                                   [] c = "sellingPrice" ->
                                        IF s.selling_price # -1
                                        THEN s.selling_price ELSE s.rate
                                   [] c = "currency"     ->
                                        IF s.selling_currency # "absent"
                                        THEN s.selling_currency ELSE b.cost_currency]
              IN [rm EXCEPT !.items = Patch(@, msg.id, updates)]
         [] msg.type = "deleted" -> [rm EXCEPT !.items = DeleteRow(@, msg.id)]
         [] OTHER -> rm

\* Service and part events of every type are read as the created payload
CatalogueMessages ==
    { [aggregate |-> a, type |-> ty, id |-> id, occurredAt |-> at,
       payload |-> [name |-> n, price |-> pr, partNumber |-> <<"P">>],
       updatedFields |-> {}] :
          a \in {"service", "part"}, ty \in {"created", "updated"}, id \in RowIds,
          at \in Times, n \in Words("N"), pr \in {0, 2} }

handleServiceEvent(rm, msg) ==
    [rm EXCEPT !.items = Upsert(@,
        [id |-> msg.id, sku |-> <<>>, name |-> msg.payload.name,
         itemType |-> "service", sellingPrice |-> msg.payload.price,
         currency |-> "", updatedAt |-> msg.occurredAt])]

handlePartEvent(rm, msg) ==
    [rm EXCEPT !.items = Upsert(@,
        [id |-> msg.id, sku |-> msg.payload.partNumber, name |-> msg.payload.name,
         itemType |-> "part", sellingPrice |-> msg.payload.price,
         currency |-> "", updatedAt |-> msg.occurredAt])]

\* ---- work orders
WorkOrderMessages ==
    { [aggregate |-> "work_order", type |-> ty, id |-> id, occurredAt |-> at,
       payload |-> [summary |-> s, status |-> st, grandTotal |-> g],
       updatedFields |-> {}] :
          ty \in {"created", "updated"}, id \in RowIds, at \in Times,
          s \in Words("S"), st \in {"", "open"}, g \in {0, 2} }
    \cup
    { [aggregate |-> "work_order", type |-> "deleted", id |-> id, occurredAt |-> at,
       payload |-> [summary |-> <<>>, status |-> "", grandTotal |-> 0],
       updatedFields |-> {}] : id \in RowIds, at \in Times }

handleWorkOrderEvent(rm, msg) ==
    LET p == msg.payload
    IN CASE msg.type = "created" ->
              [rm EXCEPT !.workOrders = Upsert(@,
                  [id |-> msg.id, summary |-> p.summary, status |-> p.status,
                   grandTotal |-> p.grandTotal, updatedAt |-> msg.occurredAt])]
         [] msg.type = "updated" ->
              LET cols == {"updatedAt"}
                          \cup (IF p.summary # <<>> THEN {"summary"} ELSE {})
                          \cup (IF p.status # "" THEN {"status"} ELSE {})
                          \cup (IF p.grandTotal > 0 THEN {"grandTotal"} ELSE {})
                  updates == [c \in cols |->
                                 CASE c = "updatedAt"  -> msg.occurredAt
                                   [] c = "summary"    -> p.summary
                                   [] c = "status"     -> p.status
                                   [] c = "grandTotal" -> p.grandTotal]
              IN [rm EXCEPT !.workOrders = Patch(@, msg.id, updates)]
         [] msg.type = "deleted" -> [rm EXCEPT !.workOrders = DeleteRow(@, msg.id)]
         [] OTHER -> rm

\* ---- same-service invoice events
InvoiceMessages ==
    { [aggregate |-> "invoice", type |-> ty, id |-> i, occurredAt |-> at,
       payload |-> [invoice_id |-> i], updatedFields |-> {}] :
          ty \in {"billing.invoice.paid", "billing.invoice.created"},
          i \in InvoiceIds, at \in Times }

\* UPDATE sales_orders SET status = 'paid' WHERE invoice_id = ?
handleInvoiceEvent(orders, msg) ==
    IF msg.type = "billing.invoice.paid"
    THEN [o \in DOMAIN orders |->
             IF orders[o].invoice = msg.payload.invoice_id
             THEN [orders[o] EXCEPT !.status = "paid"]
             ELSE orders[o]]
    ELSE orders

\* ---- EventHandler.Handle
Messages ==
    CustomerMessages \cup ContactMessages \cup ItemMessages \cup CatalogueMessages
        \cup WorkOrderMessages \cup InvoiceMessages

\* What the handlers of one message write inside the transaction
Project(store, msg) ==
    CASE msg.aggregate = "customer"   -> [store EXCEPT !.rm = handleCustomerEvent(@, msg)]
      [] msg.aggregate = "contact"    -> [store EXCEPT !.rm = handleContactEvent(@, msg)]
      [] msg.aggregate = "service"    -> [store EXCEPT !.rm = handleServiceEvent(@, msg)]
      [] msg.aggregate = "part"       -> [store EXCEPT !.rm = handlePartEvent(@, msg)]
      [] msg.aggregate = "item"       -> [store EXCEPT !.rm = handleItemEvent(@, msg)]
      [] msg.aggregate = "work_order" -> [store EXCEPT !.rm = handleWorkOrderEvent(@, msg)]
      [] msg.aggregate = "invoice"    -> [store EXCEPT !.orders = handleInvoiceEvent(@, msg)]
      [] OTHER -> store

\* Where handling a message can fail: inside the callback (decoding the event
\* or its payload, or the write statement), or at the commit of the transaction
Faults == {"none", "callback", "commit"}

TransactionWithoutRollback(before, staged, failed) == staged

\* db.Transaction commits what the callback wrote when it returns nil and the
\* commit succeeds, and rolls back otherwise
Transaction(before, staged, failed) == IF failed THEN before ELSE staged

RowCount(rm) ==
    Cardinality(rm.customers) + Cardinality(rm.contacts)
        + Cardinality(rm.items) + Cardinality(rm.workOrders)

Handle(msg, fault) ==
    LET before == [rm |-> readModel, orders |-> salesOrders]
        staged == IF fault = "callback" THEN before ELSE Project(before, msg)
        after  == Transaction(before, staged, fault # "none")
    IN /\ RowCount(staged.rm) <= MaxRows
       /\ \A r \in staged.rm.customers : Len(r.displayName) <= MaxNameWords
       /\ readModel' = after.rm
       /\ salesOrders' = after.orders
       /\ handled' = IF fault = "none" THEN "done" ELSE fault
       /\ UNCHANGED <<invoices, payments, salesReturns, audit, published, stockUpdates,
                      nextInvoice, nextPayment, nextOrder, nextReturn, assigned, ok,
                      inflight>>

\* ---------------------------------------------------------------- behaviour
Init ==
    /\ invoices = <<>>
    /\ payments = <<>>
    /\ salesOrders = <<>>
    /\ salesReturns = <<>>
    /\ audit = {}
    /\ published = {}
    /\ stockUpdates = {}
    /\ nextInvoice = 1
    /\ nextPayment = 1
    /\ nextOrder = 1
    /\ nextReturn = 1
    /\ assigned = {}
    /\ ok = TRUE
    /\ readModel = [customers |-> {}, contacts |-> {}, items |-> {}, workOrders |-> {}]
    /\ handled = "idle"
    /\ inflight = [p \in Procs |-> Idle]

Next ==
    \/ \E org \in Orgs, req \in InvoiceRequests : CreateInvoice(org, req)
    \/ \E id \in InvoiceIds, req \in InvoiceRequests : UpdateInvoice(id, req)
    \/ \E id \in InvoiceIds, pdfOk \in BOOLEAN : SendInvoice(id, pdfOk)
    \/ \E id \in InvoiceIds : DeleteInvoice(id)
    \/ \E id \in InvoiceIds, st \in InvoiceStatuses : UpdateStatus(id, st)
    \/ \E id \in InvoiceIds, a \in Amounts, dateOk \in BOOLEAN :
          RecordPayment(id, a, dateOk)
    \/ \E pid \in PaymentIds : VoidPayment(pid)
    \/ \E org \in Orgs, req \in OrderRequests, inventory \in InventoryModes :
          CreateSalesOrder(org, req, inventory)
    \/ \E id \in OrderIds, req \in OrderUpdates : UpdateSalesOrder(id, req)
    \/ \E id \in OrderIds : ConfirmSalesOrder(id)
    \/ \E id \in OrderIds : CreateInvoiceFromOrder(id)
    \/ \E id \in OrderIds : MarkAsShipped(id)
    \/ \E id \in OrderIds : CancelSalesOrder(id)
    \/ \E org \in Orgs, id \in OrderIds, req \in ReturnRequests :
          CreateSalesReturn(org, id, req)
    \/ \E id \in ReturnIds : ReceiveReturn(id)
    \/ \E id \in ReturnIds, inventory \in InventoryModes : ProcessRefund(id, inventory)

Spec == Init /\ [][Next]_vars

\* ------------------------------------------- sales orders and linked invoices
\* Requests to CreateInvoice that carry req.SalesOrderID
LinkedInvoiceRequests ==
    { [items |-> <<Line(1, 2, 0, 0, TRUE)>>, adjustment |-> 0, exciseDuty |-> 0,
       salesOrder |-> o] : o \in OrderIds }

\* Requests to UpdateSalesOrder that leave req.Items nil: one sets the TDS
\* amount, one changes nothing
OrderAmountUpdates ==
    { [hasItems |-> FALSE, items |-> <<>>, tds |-> <<1>>, tcs |-> <<>>],
      [hasItems |-> FALSE, items |-> <<>>, tds |-> <<>>, tcs |-> <<>>] }

\* The sales-order operations next to the invoice operations that reach a
\* linked order: every sales-order request, and CreateInvoice with a sales
\* order reference followed by send, payment and deletion
OrderNext ==
    \/ \E org \in Orgs, req \in OrderRequests, inventory \in InventoryModes :
          CreateSalesOrder(org, req, inventory)
    \/ \E id \in OrderIds, req \in OrderUpdates \cup OrderAmountUpdates :
          UpdateSalesOrder(id, req)
    \/ \E id \in OrderIds : ConfirmSalesOrder(id)
    \/ \E id \in OrderIds : CreateInvoiceFromOrder(id)
    \/ \E id \in OrderIds : MarkAsShipped(id)
    \/ \E id \in OrderIds : CancelSalesOrder(id)
    \/ \E org \in Orgs, req \in LinkedInvoiceRequests : CreateInvoice(org, req)
    \/ \E id \in InvoiceIds, pdfOk \in BOOLEAN : SendInvoice(id, pdfOk)
    \/ \E id \in InvoiceIds, a \in Amounts, dateOk \in BOOLEAN :
          RecordPayment(id, a, dateOk)
    \/ \E id \in InvoiceIds : DeleteInvoice(id)

OrderSpec == Init /\ [][OrderNext]_vars

\* ------------------------------------------------ event handler behaviour
\* The event handler next to the sales-order requests that give the
\* invoice-paid message a linked order to write to
ProjectorNext ==
    \/ \E msg \in Messages, fault \in Faults : Handle(msg, fault)
    \/ \E org \in Orgs, req \in OrderRequests : CreateSalesOrder(org, req, "absent")
    \/ \E id \in OrderIds : ConfirmSalesOrder(id)
    \/ \E id \in OrderIds : CreateInvoiceFromOrder(id)
    \/ \E id \in OrderIds : MarkAsShipped(id)

ProjectorSpec == Init /\ [][ProjectorNext]_vars

\* The requests that read or write an invoice's number: creation, editing,
\* sending, status changes, payments, PDF download and deletion
NumberNext ==
    \/ \E org \in Orgs, req \in InvoiceRequests : CreateInvoice(org, req)
    \/ \E id \in InvoiceIds, req \in InvoiceRequests : UpdateInvoice(id, req)
    \/ \E id \in InvoiceIds, pdfOk \in BOOLEAN : SendInvoice(id, pdfOk)
    \/ \E id \in InvoiceIds, pdfOk \in BOOLEAN : GetInvoicePDF(id, pdfOk)
    \/ \E id \in InvoiceIds, st \in InvoiceStatuses : UpdateStatus(id, st)
    \/ \E id \in InvoiceIds, amount \in Amounts, dateOk \in BOOLEAN :
          RecordPayment(id, amount, dateOk)
    \/ \E id \in InvoiceIds : DeleteInvoice(id)

NumberSpec == Init /\ [][NumberNext]_vars

\* ------------------------------------------------- concurrent payments
\* One invoice is created and sent, and the request handlers then serve
\* RecordPayment requests on it, one statement at a time
PaymentRaceNext ==
    \/ \E org \in Orgs, req \in InvoiceRequests : CreateInvoice(org, req)
    \/ \E id \in InvoiceIds : SendInvoice(id, TRUE)
    \/ \E p \in Procs, id \in InvoiceIds, amount \in Amounts, dateOk \in BOOLEAN :
          ReadInvoiceForPayment(p, id, amount, dateOk)
    \/ \E p \in Procs : CreatePaymentRow(p)
    \/ \E p \in Procs : SaveInvoiceAfterPayment(p)

PaymentRaceSpec == Init /\ [][PaymentRaceNext]_vars

\* --------------------------------------------- concurrent order invoicing
\* Orders are created, edited, confirmed and cancelled, the request handlers
\* serve CreateInvoiceFromOrder requests one statement at a time, and the
\* invoices they create are sent
InvoiceRaceNext ==
    \/ \E org \in Orgs, req \in OrderRequests : CreateSalesOrder(org, req, "absent")
    \/ \E id \in OrderIds, req \in OrderUpdates : UpdateSalesOrder(id, req)
    \/ \E id \in OrderIds : ConfirmSalesOrder(id)
    \/ \E id \in OrderIds : CancelSalesOrder(id)
    \/ \E id \in InvoiceIds : SendInvoice(id, TRUE)
    \/ \E p \in Procs, id \in OrderIds : ReadOrderForInvoice(p, id)
    \/ \E p \in Procs : CreateInvoiceRow(p)
    \/ \E p \in Procs : SaveOrderAfterInvoice(p)

InvoiceRaceSpec == Init /\ [][InvoiceRaceNext]_vars

\* ------------------------------------------------------ concurrent refunds
\* An order is confirmed, invoiced, paid and shipped, a return on it is
\* created and received, and the request handlers then serve ProcessRefund
\* requests one statement at a time, with a store that may refuse a write
RefundRaceNext ==
    \/ \E org \in Orgs, req \in OrderRequests : CreateSalesOrder(org, req, "absent")
    \/ \E id \in OrderIds : ConfirmSalesOrder(id)
    \/ \E id \in OrderIds : CreateInvoiceFromOrder(id)
    \/ \E id \in InvoiceIds : SendInvoice(id, TRUE)
    \/ \E id \in InvoiceIds, amount \in Amounts : RecordPayment(id, amount, TRUE)
    \/ \E id \in OrderIds : MarkAsShipped(id)
    \/ \E org \in Orgs, id \in OrderIds, req \in ReturnRequests :
          CreateSalesReturn(org, id, req)
    \/ \E id \in ReturnIds : ReceiveReturn(id)
    \/ \E p \in Procs, id \in ReturnIds : ReadReturnForRefund(p, id)
    \/ \E p \in Procs : CreateRefundPayment(p)
    \/ \E p \in Procs, saveOk \in BOOLEAN : SaveInvoiceAfterRefund(p, saveOk)
    \/ \E p \in Procs, saveOk \in BOOLEAN, inventory \in InventoryModes :
          SaveReturnAfterRefund(p, saveOk, inventory)

RefundRaceSpec == Init /\ [][RefundRaceNext]_vars

\* ------------------------------------------------- failing audit store
\* The invoice and payment requests that write an audit row, each served with
\* a working or a failing audit store
AuditNext ==
    \/ \E org \in Orgs, req \in InvoiceRequests : CreateInvoice(org, req)
    \/ \E id \in InvoiceIds, pdfOk \in BOOLEAN, auditOk \in BOOLEAN :
          SendInvoiceWithAudit(id, pdfOk, auditOk)
    \/ \E id \in InvoiceIds, st \in InvoiceStatuses, auditOk \in BOOLEAN :
          UpdateStatusWithAudit(id, st, auditOk)
    \/ \E id \in InvoiceIds, a \in Amounts, dateOk \in BOOLEAN, auditOk \in BOOLEAN :
          RecordPaymentWithAudit(id, a, dateOk, auditOk)
    \/ \E pid \in PaymentIds, auditOk \in BOOLEAN : VoidPaymentWithAudit(pid, auditOk)

AuditSpec == Init /\ [][AuditNext]_vars

\* ------------------------------------------------------------------- claims

\* C1: for every stored invoice, whatever requests were served (accepted or
\* rejected), the balance amount equals the total amount minus the paid amount.
BalanceIsTotalMinusPaid ==
    \A i \in DOMAIN invoices :
        invoices[i].balance = invoices[i].total - invoices[i].paid

\* An invoice of an order that was paid and then refunded more than was paid
BalanceWitness ==
    \E p \in DOMAIN payments :
        /\ payments[p].ptype = "refund"
        /\ payments[p].invoice \in DOMAIN invoices
        /\ invoices[payments[p].invoice].paid < 0

RECURSIVE SumAmounts(_)
SumAmounts(ps) ==
    IF ps = {} THEN 0
    ELSE LET p == CHOOSE q \in ps : TRUE
         IN payments[p].amount + SumAmounts(ps \ {p})

NonVoidPaymentsOf(i) == {p \in PaymentsOf(i) : payments[p].status # "void"}

StatusChangesFollowTable ==
    [][\A i \in DOMAIN invoices :
          (i \in DOMAIN invoices' /\ invoices'[i].status # invoices[i].status)
              => invoices'[i].status \in validTransitions[invoices[i].status]]_vars

\* C4: every successful SendInvoice stores a number that SendInvoice has stored
\* on no other invoice of the organization before.
SentNumbersAreFresh ==
    [][\A i \in InvoiceIds :
          (SendInvoice(i, TRUE) /\ ok')
              => \A t \in assigned :
                    ~(t[1] = invoices[i].org /\ t[2] = invoices'[i].number /\ t[3] # i)]_vars

\* C5: SendInvoice on an invoice that is not a draft returns an error, leaves
\* the invoice row (status, number, PDF path, amounts) as it was and writes no
\* audit row: a step that does not do all of this is no SendInvoice on an
\* invoice that is not a draft.
SendOnNonDraftFails ==
    [][\/ (~ok' /\ invoices' = invoices /\ audit' = {} /\ assigned' = assigned)
       \/ \A i \in DOMAIN invoices, pdfOk \in BOOLEAN :
             invoices[i].status # "draft" => ~SendInvoice(i, pdfOk)]_vars

\* A refused request found an invoice that carries a number and is not a draft
SendRefusedWitness ==
    /\ ~ok
    /\ audit = {}
    /\ \E i \in DOMAIN invoices :
          invoices[i].status = "sent" /\ invoices[i].number # NoNumber

\* C6: RecordPayment of an amount A > 0 on a sent invoice with balance B >= A
\* creates one completed payment of A, adds A to the paid amount and takes it
\* from the balance; the status becomes paid when B - A = 0 and stays sent
\* when B - A > 0.
PaymentWithinBalanceSettles ==
    [][\A i \in DOMAIN invoices, a \in Amounts :
          (/\ a > 0
           /\ invoices[i].status = "sent"
           /\ invoices[i].balance >= a
           /\ RecordPayment(i, a, TRUE))
              => /\ ok'
                 /\ DOMAIN payments' = DOMAIN payments \cup {nextPayment}
                 /\ payments'[nextPayment].amount = a
                 /\ payments'[nextPayment].status = "completed"
                 /\ payments'[nextPayment].invoice = i
                 /\ invoices'[i].paid = invoices[i].paid + a
                 /\ invoices'[i].balance = invoices[i].balance - a
                 /\ invoices'[i].status =
                       IF invoices[i].balance - a = 0 THEN "paid" ELSE "sent"]_vars

\* C7: RecordPayment of an amount above the balance plus the tolerance, or of
\* an amount that is not positive, returns an error, creates no payment row and
\* leaves the invoice row as it was: a step that does not do all of this is no
\* RecordPayment of such an amount.
OverpaymentRejected ==
    [][\/ (~ok' /\ payments' = payments /\ invoices' = invoices)
       \/ \A i \in DOMAIN invoices, a \in Amounts :
             (a <= 0 \/ a > invoices[i].balance + Epsilon)
                 => \A dateOk \in BOOLEAN : ~RecordPayment(i, a, dateOk)]_vars

\* A refused request found a sent invoice without payments whose balance plus
\* the tolerance is below an amount that is offered
OverpaymentWitness ==
    /\ ~ok
    /\ \E i \in DOMAIN invoices :
          /\ invoices[i].status = "sent"
          /\ PaymentsOf(i) = {}
          /\ invoices[i].balance + Epsilon < MaxAmount

\* C8: RecordPayment returns without error only on an invoice whose status is
\* sent; on any other status it returns an error, creates no payment row and
\* leaves the invoice row as it was.
PaymentOnlyWhenSent ==
    [][\/ (~ok' /\ payments' = payments /\ invoices' = invoices)
       \/ \A i \in DOMAIN invoices :
             invoices[i].status # "sent"
                 => \A a \in Amounts, dateOk \in BOOLEAN : ~RecordPayment(i, a, dateOk)]_vars

\* A refused request found an overdue invoice with an open balance and no payment
PaymentRefusedWitness ==
    /\ ~ok
    /\ \E i \in DOMAIN invoices :
          /\ invoices[i].status = "overdue"
          /\ invoices[i].balance > 0
          /\ PaymentsOf(i) = {}

\* C9: VoidPayment of a completed payment of signed amount A sets the payment
\* to void, takes A from the invoice's paid amount and adds it to the balance;
\* and what RecordPayment(A) did to the paid amount and the balance is undone
\* by voiding the payment it created.
VoidReversesPayment ==
    [][/\ \A pid \in DOMAIN payments :
             (payments[pid].status = "completed" /\ VoidPayment(pid))
                 => LET i == payments[pid].invoice
                        a == payments[pid].amount
                    IN /\ ok'
                       /\ payments'[pid].status = "void"
                       /\ invoices'[i].paid = invoices[i].paid - a
                       /\ invoices'[i].balance = invoices[i].balance + a
       /\ ok' => \A i \in DOMAIN invoices, a \in Amounts :
             RecordPayment(i, a, TRUE)
                 => /\ nextPayment \in DOMAIN payments'
                    /\ payments'[nextPayment].status = "completed"
                    /\ payments'[nextPayment].invoice = i
                    /\ AfterVoid(invoices'[i], payments'[nextPayment].amount).paid
                          = invoices[i].paid
                    /\ AfterVoid(invoices'[i], payments'[nextPayment].amount).balance
                          = invoices[i].balance]_vars

\* A payment was voided and the invoice is back at nothing paid
VoidWitness ==
    /\ ok
    /\ \E p \in DOMAIN payments :
          /\ payments[p].status = "void"
          /\ payments[p].ptype = "payment"
          /\ invoices[payments[p].invoice].paid = 0
          /\ invoices[payments[p].invoice].balance = invoices[payments[p].invoice].total
          /\ AuditRow(payments[p].invoice, "PAYMENT_VOIDED") \in audit

\* C10: a payment's status is completed or void and never leaves void;
\* VoidPayment on a void payment returns an error and leaves the payment rows
\* and the invoice rows as they were.
VoidIsOneWay ==
    [][/\ \A p \in DOMAIN payments :
             (payments[p].status = "void" /\ p \in DOMAIN payments')
                 => payments'[p].status = "void"
       /\ \A p \in DOMAIN payments' : payments'[p].status \in {"completed", "void"}
       /\ \/ (~ok' /\ payments' = payments /\ invoices' = invoices)
          \/ \A pid \in DOMAIN payments :
                payments[pid].status = "void" => ~VoidPayment(pid)]_vars

\* A refused request found a payment that is void
VoidRefusedWitness ==
    /\ ~ok
    /\ audit = {}
    /\ \E p \in DOMAIN payments : payments[p].status = "void"

\* C12: when RecordPayment brings the sent invoice that was created from a
\* sales order to status paid, that same request leaves the order, which was
\* invoiced, with status paid and changes nothing else of it or of any other
\* order; no sales-order operation is involved.
PaidInvoiceMarksOrderPaid ==
    [][\A i \in DOMAIN invoices :
          (/\ invoices[i].status = "sent"
           /\ invoices[i].salesOrder \in DOMAIN salesOrders
           /\ salesOrders[invoices[i].salesOrder].invoice = i
           /\ salesOrders[invoices[i].salesOrder].status = "invoiced")
          => \/ salesOrders' =
                   [salesOrders EXCEPT ![invoices[i].salesOrder].status = "paid"]
             \/ \A a \in Amounts :
                   ~(RecordPayment(i, a, TRUE) /\ invoices'[i].status = "paid")]_vars

PaidOrderWitness ==
    /\ ok
    /\ \E o \in DOMAIN salesOrders :
          /\ salesOrders[o].status = "paid"
          /\ ~salesOrders[o].shipped
          /\ salesOrders[o].invoice \in DOMAIN invoices
          /\ invoices[salesOrders[o].invoice].status = "paid"
          /\ invoices[salesOrders[o].invoice].salesOrder = o
          /\ Event("InvoiceStatusChanged", salesOrders[o].invoice) \in published

\* A return line that names no line of the order, returns nothing or less, or
\* returns more than its order line holds
ReturnLineRefusable(l, originalItems) ==
    \/ l.orderItem \notin 1..Len(originalItems)
    \/ l.quantity <= 0
    \/ l.quantity > originalItems[l.orderItem].quantity

ShortageCommitsNothing ==
    [][\/ (~ok' /\ salesOrders' = salesOrders /\ nextOrder' = nextOrder
                /\ stockUpdates' = {} /\ published' = {})
       \/ \A org \in Orgs, req \in OrderRequests, inventory \in {"short", "checkError"} :
             Len(req.items) > 0 => ~CreateSalesOrder(org, req, inventory)]_vars

ShortageWitness ==
    /\ ~ok
    /\ salesOrders = <<>>
    /\ nextOrder = 1
    /\ stockUpdates = {}
    /\ published = {}
    /\ invoices = <<>>
    /\ nextInvoice = 1

\* C11: every change of a stored sales order's status goes to a status
\* adjacent to the current one in the table of SalesOrder.CanTransitionTo, and
\* the status of a completed or cancelled order never changes.
OrderStatusChangesFollowTable ==
    [][\A o \in DOMAIN salesOrders :
          (o \in DOMAIN salesOrders' /\ salesOrders'[o].status # salesOrders[o].status)
              => salesOrders'[o].status \in salesOrderTransitions[salesOrders[o].status]]_vars

\* What C17 says of the invoice a request's lines are built into
TotalsFollowLines(inv, req) ==
    /\ Len(inv.items) = Len(req.items)
    /\ \A k \in 1..Len(req.items) :
          inv.items[k].total =
             (req.items[k].quantity * req.items[k].unitPrice)
                - req.items[k].discount + req.items[k].tax
    /\ inv.subTotal =
          SumOver([k \in 1..Len(req.items) |-> req.items[k].quantity * req.items[k].unitPrice])
    /\ inv.discountTotal = SumOver([k \in 1..Len(req.items) |-> req.items[k].discount])
    /\ inv.taxTotal = SumOver([k \in 1..Len(req.items) |-> req.items[k].tax])
    /\ inv.total = inv.subTotal - inv.discountTotal + inv.taxTotal + req.adjustment

\* 1 @ 100.00 less 10.00 plus 9.00, and 2 @ 25.00 less 5.00 plus 4.50, in cents
ExampleRequest ==
    [items |-> <<Line(1, 10000, 1000, 900, TRUE), Line(2, 2500, 500, 450, TRUE)>>,
     adjustment |-> 0, exciseDuty |-> 0, salesOrder |-> NoRef]

\* C17: the invoice CreateInvoice stores, and the invoice a successful
\* UpdateInvoice stores, has line totals quantity x unit price - discount + tax,
\* sub-total, discount total and tax total summed over the request's lines, and
\* total amount = sub-total - discount total + tax total + adjustment; the
\* example lines give 150.00, 15.00, 13.50 and 148.50.
InvoiceTotalsFromLines ==
    [][/\ \A org \in Orgs, req \in InvoiceRequests :
             CreateInvoice(org, req) => TotalsFollowLines(invoices'[nextInvoice], req)
       /\ \A id \in DOMAIN invoices, req \in InvoiceRequests :
             (UpdateInvoice(id, req) /\ ok') => TotalsFollowLines(invoices'[id], req)
       /\ LET inv == NewInvoice(1, ExampleRequest)
          IN /\ inv.subTotal = 15000
             /\ inv.discountTotal = 1500
             /\ inv.taxTotal = 1350
             /\ inv.total = 14850]_vars

\* C18: every stored sales order has sub-total, discount total and tax total
\* equal to the sums over its stored lines, and total = sub-total - discount
\* total + tax total - TDS + TCS.
OrderTotalsFollowLines ==
    \A o \in DOMAIN salesOrders :
        LET so == salesOrders[o]
        IN /\ so.subTotal = SumOver([k \in 1..Len(so.items) |-> LineGross(so.items[k])])
           /\ so.discountTotal = SumOver([k \in 1..Len(so.items) |-> LineDiscount(so.items[k])])
           /\ so.taxTotal = SumOver([k \in 1..Len(so.items) |-> LineTax(so.items[k])])
           /\ so.total = so.subTotal - so.discountTotal + so.taxTotal - so.tds + so.tcs

Store == [rm |-> readModel, orders |-> salesOrders]

CreatedMessages ==
    {m \in Messages :
        /\ m.type = "created"
        /\ m.aggregate \in {"customer", "contact", "item", "service", "part", "work_order"}}

TableOf(rm, aggregate) ==
    CASE aggregate = "customer"   -> rm.customers
      [] aggregate = "contact"    -> rm.contacts
      [] aggregate = "work_order" -> rm.workOrders
      [] OTHER                    -> rm.items

\* C14: from every store the handler can reach, applying a created message
\* for a customer, contact, item, service, part or work order a second time
\* leaves the store as the first application left it, with exactly one row for
\* the aggregate.
CreatedRedeliveryKeepsRow ==
    \A m \in CreatedMessages :
        LET once  == Project(Store, m)
            twice == Project(once, m)
        IN /\ twice = once
           /\ Cardinality({r \in TableOf(twice.rm, m.aggregate) : r.id = m.id}) = 1

CreatedTwiceWitness ==
    /\ handled = "done"
    /\ \E m \in CreatedMessages :
          /\ m.aggregate = "customer"
          /\ m.payload.displayName = <<>>
          /\ m.payload.firstName # <<>>
          /\ HasRow(readModel.customers, m.id)
          /\ Project(Store, m) = Store

\* C15: from every store the handler can reach, applying any message twice in
\* a row leaves the same store as applying it once.
HandlersIdempotent ==
    \A m \in Messages : Project(Project(Store, m), m) = Project(Store, m)

\* C16: a message whose handling fails leaves the read-model tables and the
\* sales orders as they were, so handling it again from there writes what a
\* single successful handling writes: a step that changes either is no failed
\* handling of a message.
FailedMessageLeavesNoWrite ==
    [][\/ (readModel' = readModel /\ salesOrders' = salesOrders)
       \/ \A fault \in Faults \ {"none"} :
             \/ handled' # fault
             \/ \A m \in Messages : ~Handle(m, fault)]_vars

FailedCommitWitness ==
    /\ handled = "commit"
    /\ readModel.customers # {}
    /\ \E o \in DOMAIN salesOrders : salesOrders[o].status = "invoiced"

\* C21: a CreateSalesOrder that has stored its order, and a ProcessRefund that
\* has stored its refund, returns success also when the inventory's UpdateStock
\* call fails: a step of either with a failing UpdateStock that stores the
\* order or the refund ends with a nil error.
StockFailureKeepsSuccess ==
    [][\/ ok'
       \/ /\ \A org \in Orgs, req \in OrderRequests :
                ~(CreateSalesOrder(org, req, "updateError") /\ nextOrder' # nextOrder)
          /\ \A id \in DOMAIN salesReturns :
                ~(ProcessRefund(id, "updateError") /\ nextPayment' # nextPayment)]_vars

\* C22: SendInvoice, UpdateStatus, RecordPayment and VoidPayment return the
\* same result and store the same invoices and payments whether the audit store
\* works or fails: for either outcome of the audit write the request succeeds
\* exactly when its checks pass, and then stores what the request asks for.
AuditFailureKeepsOutcome ==
    [][\A auditOk \in BOOLEAN :
          /\ \A id \in InvoiceIds, pdfOk \in BOOLEAN :
                SendInvoiceWithAudit(id, pdfOk, auditOk)
                   => /\ ok' = SendAccepted(id, pdfOk)
                      /\ payments' = payments
                      /\ invoices' =
                            IF SendAccepted(id, pdfOk)
                            THEN [invoices EXCEPT
                                    ![id].number = GetNextInvoiceNumber(invoices[id].org),
                                    ![id].pdf = TRUE,
                                    ![id].status = "sent"]
                            ELSE invoices
          /\ \A id \in InvoiceIds, st \in InvoiceStatuses :
                UpdateStatusWithAudit(id, st, auditOk)
                   => /\ ok' = (id \in DOMAIN invoices)
                      /\ payments' = payments
                      /\ invoices' =
                            IF id \in DOMAIN invoices
                            THEN [invoices EXCEPT ![id].status = st]
                            ELSE invoices
          /\ \A id \in InvoiceIds, a \in Amounts, dateOk \in BOOLEAN :
                RecordPaymentWithAudit(id, a, dateOk, auditOk)
                   => /\ ok' = PaymentAccepted(id, a, dateOk)
                      /\ IF PaymentAccepted(id, a, dateOk)
                         THEN /\ invoices' = [invoices EXCEPT ![id] = AfterPayment(@, a)]
                              /\ DOMAIN payments' = DOMAIN payments \cup {nextPayment}
                              /\ payments'[nextPayment].amount = a
                              /\ payments'[nextPayment].status = "completed"
                         ELSE invoices' = invoices /\ payments' = payments
          /\ \A pid \in PaymentIds :
                VoidPaymentWithAudit(pid, auditOk)
                   => /\ ok' = VoidAccepted(pid)
                      /\ IF VoidAccepted(pid)
                         THEN /\ payments' = [payments EXCEPT ![pid].status = "void"]
                              /\ invoices' =
                                    [invoices EXCEPT ![payments[pid].invoice] =
                                        AfterVoid(@, payments[pid].amount)]
                         ELSE invoices' = invoices /\ payments' = payments]_vars

\* A payment was recorded with success while the audit store failed
AuditFailedWitness ==
    /\ ok
    /\ audit = {}
    /\ \E p \in DOMAIN payments :
          /\ Event("PaymentRecorded", p) \in published
          /\ payments[p].status = "completed"
          /\ invoices[payments[p].invoice].paid = payments[p].amount

\* C23: a stored payment row is never removed, and its invoice and amount
\* never change; a reversal only changes its status.
PaymentsAppendOnly ==
    [][\A p \in DOMAIN payments :
          /\ p \in DOMAIN payments'
          /\ payments'[p].invoice = payments[p].invoice
          /\ payments'[p].amount = payments[p].amount]_vars

\* C25: after every request that stores a payment, a reversal or a refund
\* against an invoice (RecordPayment, VoidPayment, ProcessRefund: the steps that
\* change the payments and the invoice), the invoice has status paid exactly
\* when its balance is zero and its paid amount is positive.
StatusMatchesPaymentState ==
    [][\A i \in DOMAIN invoices :
          (/\ payments' # payments
           /\ i \in DOMAIN invoices'
           /\ invoices'[i] # invoices[i])
          => (invoices'[i].status = "paid"
                <=> (invoices'[i].balance = 0 /\ invoices'[i].paid > 0))]_vars

\* C26: a request that stores a payment, a reversal or a refund (RecordPayment,
\* VoidPayment, ProcessRefund: the steps that change the payments) leaves every
\* invoice with its stored status or with a status the table of
\* Invoice.CanTransitionTo permits from it; in particular it leaves a void
\* invoice void.
PaymentStatusFollowsTable ==
    [][\A i \in DOMAIN invoices :
          (payments' # payments /\ i \in DOMAIN invoices')
          => \/ invoices'[i].status = invoices[i].status
             \/ invoices'[i].status \in validTransitions[invoices[i].status]]_vars

\* C27: an invoice's stored number changes only in a successful SendInvoice of
\* that invoice, and only from no number to a number: no other request stores
\* a number, and a stored number is never replaced
NumberStoredOnlyBySend ==
    [][\A i \in DOMAIN invoices' :
          LET old == IF i \in DOMAIN invoices THEN invoices[i].number ELSE NoNumber
          IN invoices'[i].number # old =>
                /\ old = NoNumber
                /\ i \in DOMAIN invoices
                /\ ok'
                /\ \E pdfOk \in BOOLEAN : SendInvoice(i, pdfOk)]_vars

\* C29: a sales return enters the store in approved status with a return
\* number and is never removed; its status changes only from approved to
\* received in a successful ReceiveReturn and from received to refunded in a
\* successful ProcessRefund; ReceiveReturn on a return that is not approved and
\* ProcessRefund on a return that is not received return an error and leave
\* the row as it was, so a refunded return keeps its status
ReturnStatusOnlyAdvances ==
    [][/\ DOMAIN salesReturns \subseteq DOMAIN salesReturns'
       /\ \A r \in DOMAIN salesReturns' \ DOMAIN salesReturns :
             /\ salesReturns'[r].status = "approved"
             /\ salesReturns'[r].number # NoNumber
       /\ \A r \in DOMAIN salesReturns :
             LET a == salesReturns[r].status
                 b == salesReturns'[r].status
                 kept == salesReturns'[r] = salesReturns[r] /\ ~ok'
             IN /\ b # a =>
                      \/ a = "approved" /\ b = "received" /\ ok' /\ ReceiveReturn(r)
                      \/ /\ a = "received" /\ b = "refunded" /\ ok'
                         /\ \E inventory \in InventoryModes : ProcessRefund(r, inventory)
                /\ a # "approved" => kept \/ ~ReceiveReturn(r)
                /\ a # "received" =>
                      kept \/ \A inventory \in InventoryModes : ~ProcessRefund(r, inventory)]_vars

\* A return that went through both steps: it is refunded, linked to its refund
\* payment, and the request that refunded it has just been served
RefundedReturnWitness ==
    \E r \in DOMAIN salesReturns :
        /\ salesReturns[r].status = "refunded"
        /\ salesReturns[r].refundPayment \in DOMAIN payments
        /\ Event("sales_return.refunded", r) \in published
        /\ ok

\* C24: RecordPayment requests that interleave between reading the invoice and
\* saving it each pass the balance check on the invoice as they read it and
\* each create a completed payment, and each saves the invoice computed from
\* its own read. So the invoice's amounts stay consistent with each other and
\* every payment is within the total plus the tolerance, but the paid amount
\* is only bounded by the sum of the completed payments: it falls below that
\* sum when a save overwrites another request's save
StaleSaveOnlyLosesPayments ==
    \A i \in DOMAIN invoices :
        /\ invoices[i].balance = invoices[i].total - invoices[i].paid
        /\ invoices[i].paid <= SumAmounts(NonVoidPaymentsOf(i))
        /\ \A p \in PaymentsOf(i) : payments[p].amount <= invoices[i].total + Epsilon

\* The lost update: both requests are finished, two completed payments whose
\* amounts together exceed the invoice's total plus the tolerance are stored,
\* and the invoice's paid amount is not their sum
LostUpdateWitness ==
    \E i \in DOMAIN invoices :
        /\ \A p \in Procs : inflight[p] = Idle
        /\ Cardinality(NonVoidPaymentsOf(i)) = 2
        /\ SumAmounts(NonVoidPaymentsOf(i)) > invoices[i].total + Epsilon
        /\ invoices[i].paid # SumAmounts(NonVoidPaymentsOf(i))

\* C30: at most one invoice is created from a sales order, also when
\* CreateInvoiceFromOrder requests on the order interleave: no two stored
\* invoices reference the same sales order
OneInvoicePerOrder ==
    \A i, j \in DOMAIN invoices :
        (i # j /\ invoices[i].salesOrder # NoRef) =>
            invoices[i].salesOrder # invoices[j].salesOrder

\* C28: a sales return is refunded at most once: at most one refund payment
\* references it, also when ProcessRefund requests on it interleave and when
\* ProcessRefund is called again after a call failed partway
AtMostOneRefundPerReturn ==
    \A r \in DOMAIN salesReturns : Cardinality(RefundPaymentsOf(r)) <= 1

\* The columns of an invoice that UpdateInvoice writes from the request
EditedColumns(inv) ==
    <<inv.items, inv.subTotal, inv.discountTotal, inv.taxTotal, inv.total>>

\* C31: UpdateInvoice on an invoice that is not in draft status returns an
\* error and changes nothing, and UpdateSalesOrder does so on an order that is
\* not in draft status; the line items, sub-total, discount, tax and total of
\* a stored invoice that has been sent (it carries a number SendInvoice stored,
\* or its status is not draft) are the same after every step
EditOnlyInDraft ==
    [][/\ \/ (invoices' = invoices /\ ~ok')
          \/ \A i \in DOMAIN invoices, req \in InvoiceRequests :
                invoices[i].status = "draft" \/ ~UpdateInvoice(i, req)
       /\ \/ (salesOrders' = salesOrders /\ ~ok')
          \/ \A o \in DOMAIN salesOrders, req \in OrderUpdates :
                salesOrders[o].status = "draft" \/ ~UpdateSalesOrder(o, req)
       /\ \A i \in DOMAIN invoices \cap DOMAIN invoices' :
             (invoices[i].status # "draft" \/ \E a \in assigned : a[3] = i) =>
                 EditedColumns(invoices'[i]) = EditedColumns(invoices[i])]_vars

\* C32: an UpdateInvoice that returns an error leaves the stored invoices as
\* they were: the invoice keeps its line items and its totals
FailedUpdateChangesNothing ==
    [][\/ ok'
       \/ invoices' = invoices
       \/ \A i \in InvoiceIds, req \in InvoiceRequests : ~UpdateInvoice(i, req)]_vars

\* C33: RecordPayment publishes the invoice-paid notification and writes the
\* linked sales order's status only when the status it recomputed for the
\* invoice is paid; a payment that leaves a positive balance publishes no such
\* notification and leaves the sales orders as they were
PaidNotificationOnlyWhenPaid ==
    [][\/ (published' = {} /\ salesOrders' = salesOrders)
       \/ \A i \in DOMAIN invoices, a \in Amounts, dateOk \in BOOLEAN :
             RecordPayment(i, a, dateOk) =>
                 LET notified == Event("InvoiceStatusChanged", i) \in published'
                 IN /\ (notified \/ salesOrders' # salesOrders) =>
                           invoices'[i].status = "paid"
                    /\ invoices'[i].balance > 0 =>
                           (~notified /\ salesOrders' = salesOrders)]_vars

\* A partial payment on an invoice linked to a sales order has just been
\* recorded: the balance is positive, the payment's events are published, the
\* invoice-paid notification is not, and the order is still invoiced
PartialPaymentWitness ==
    \E p \in DOMAIN payments :
        LET i == payments[p].invoice
        IN /\ ok
           /\ Event("PaymentRecorded", p) \in published
           /\ i \in DOMAIN invoices
           /\ invoices[i].balance > 0
           /\ invoices[i].paid > 0
           /\ invoices[i].salesOrder \in DOMAIN salesOrders
           /\ salesOrders[invoices[i].salesOrder].status = "invoiced"
           /\ Event("InvoiceStatusChanged", i) \notin published

UpdatedMessages ==
    {m \in Messages :
        m.type = "updated" /\ m.aggregate \in {"customer", "contact", "item"}}

\* The columns an updated message names: those whose field is in its
\* changed-fields list or whose payload value is not empty, and the update
\* timestamp
ColumnsNamed(m) ==
    LET p == m.payload
        f == m.updatedFields
    IN {"updatedAt"} \cup
       CASE m.aggregate = "customer" ->
               (IF p.displayName # <<>> \/ "display_name" \in f
                THEN {"displayName"} ELSE {})
               \cup (IF p.companyName # <<>> \/ "company_name" \in f
                     THEN {"companyName"} ELSE {})
               \cup (IF p.email # <<>> \/ "email" \in f THEN {"email"} ELSE {})
         [] m.aggregate = "contact" ->
               (IF p.firstName # <<>> \/ "first_name" \in f THEN {"firstName"} ELSE {})
               \cup (IF p.lastName # <<>> \/ "last_name" \in f THEN {"lastName"} ELSE {})
               \cup (IF p.isPrimary # "nil" \/ "is_primary" \in f
                     THEN {"isPrimary"} ELSE {})
               \cup (IF p.company # NoRef THEN {"customer"} ELSE {})
         [] OTHER ->
               (IF p.name # <<>> \/ "name" \in f THEN {"name"} ELSE {})
               \cup (IF p.type # "" \/ "type" \in f THEN {"itemType"} ELSE {})
               \cup (IF p.salesInfo.selling_price # -1 \/ p.salesInfo.rate # -1
                     THEN {"sellingPrice"} ELSE {})
               \cup (IF \/ p.salesInfo.selling_currency # "absent"
                        \/ p.purchaseInfo.cost_currency # "absent"
                     THEN {"currency"} ELSE {})

\* A customer's display name is also composed from the first and last name
\* of the payload
ColumnsNamedOrComposed(m) ==
    ColumnsNamed(m) \cup
    (IF /\ m.aggregate = "customer"
        /\ (m.payload.firstName # <<>> \/ m.payload.lastName # <<>>)
     THEN {"displayName"} ELSE {})

\* Handling m from the current store creates and removes no row, leaves the
\* other tables and the sales orders alone, and changes only columns in named
FrameKept(m, named) ==
    LET after == Project(Store, m)
        rows  == TableOf(Store.rm, m.aggregate)
        rows2 == TableOf(after.rm, m.aggregate)
    IN /\ after.orders = Store.orders
       /\ \A a \in {"customer", "contact", "item", "work_order"} \ {m.aggregate} :
             TableOf(after.rm, a) = TableOf(Store.rm, a)
       /\ {r.id : r \in rows2} = {r.id : r \in rows}
       /\ Cardinality(rows2) = Cardinality(rows)
       /\ \A r \in rows : \E q \in rows2 :
             /\ q.id = r.id
             /\ DOMAIN q = DOMAIN r
             /\ \A c \in DOMAIN r \ named : q[c] = r[c]

\* C34: a customer, contact or item updated message changes only the columns
\* it names: every column whose field is not in the changed-fields list and
\* whose payload value is empty keeps its value, the update timestamp apart,
\* and no row is created
UpdatedChangesOnlyNamedColumns ==
    \A m \in UpdatedMessages : FrameKept(m, ColumnsNamed(m))

\* C34, amended: as above, except that a customer's display name is also
\* rewritten when the payload carries a first or a last name
UpdatedChangesNamedOrComposedColumns ==
    \A m \in UpdatedMessages : FrameKept(m, ColumnsNamedOrComposed(m))

\* An updated customer message that carries first and last name, no display
\* name and no email rewrites the display name of a stored row and keeps the
\* row's stored email
ComposedNameWitness ==
    /\ handled = "done"
    /\ \E m \in UpdatedMessages :
          /\ m.aggregate = "customer"
          /\ m.updatedFields = {}
          /\ m.payload.displayName = <<>>
          /\ m.payload.firstName # <<>>
          /\ m.payload.lastName # <<>>
          /\ m.payload.email = <<>>
          /\ HasRow(readModel.customers, m.id)
          /\ RowOf(readModel.customers, m.id).email # <<>>
          /\ RowOf(Project(Store, m).rm.customers, m.id).displayName
                # RowOf(readModel.customers, m.id).displayName
          /\ RowOf(Project(Store, m).rm.customers, m.id).email
                = RowOf(readModel.customers, m.id).email

\* C35: the balance of a stored invoice is never negative and its paid amount
\* never exceeds its total, also after a payment accepted inside the tolerance
\* above the balance
BalanceNeverNegative ==
    \A i \in DOMAIN invoices :
        /\ invoices[i].balance >= 0
        /\ invoices[i].paid <= invoices[i].total

RefundRowsOf(i) ==
    {p \in NonVoidPaymentsOf(i) : payments[p].ptype = "refund"}

\* C36: the paid amount of a stored invoice is never negative: the refunds
\* applied to an invoice through the returns of its sales order never total
\* more than the payments received on it
RefundsWithinPayments ==
    \A i \in DOMAIN invoices :
        /\ invoices[i].paid >= 0
        /\ 0 - SumAmounts(RefundRowsOf(i))
              <= SumAmounts(NonVoidPaymentsOf(i) \ RefundRowsOf(i))

\* ------------------------------------------- several returns on one order
\* An order is confirmed, invoiced, paid and shipped, and sales returns are
\* then created, received and refunded on it one after the other
ReturnNext ==
    \/ \E org \in Orgs, req \in OrderRequests : CreateSalesOrder(org, req, "absent")
    \/ \E id \in OrderIds, req \in OrderUpdates : UpdateSalesOrder(id, req)
    \/ \E id \in OrderIds : ConfirmSalesOrder(id)
    \/ \E id \in OrderIds : CreateInvoiceFromOrder(id)
    \/ \E id \in InvoiceIds, pdfOk \in BOOLEAN : SendInvoice(id, pdfOk)
    \/ \E id \in InvoiceIds, amount \in Amounts : RecordPayment(id, amount, TRUE)
    \/ \E id \in OrderIds : MarkAsShipped(id)
    \/ \E id \in OrderIds : CancelSalesOrder(id)
    \/ \E org \in Orgs, id \in OrderIds, req \in ReturnRequests :
          CreateSalesReturnWithin(org, id, req, MaxOrderReturns)
    \/ \E id \in 1..MaxOrderReturns : ReceiveReturn(id)
    \/ \E id \in 1..MaxOrderReturns, inventory \in InventoryModes :
          ProcessRefund(id, inventory)

ReturnSpec == Init /\ [][ReturnNext]_vars

ReturnsOf(o) == {r \in DOMAIN salesReturns : salesReturns[r].order = o}

\* The quantity one sales return gives back of line k of its order
ReturnedInReturn(r, k) ==
    SumOver([j \in 1..Len(salesReturns[r].items) |->
        IF salesReturns[r].items[j].orderItem = k
        THEN salesReturns[r].items[j].quantity
        ELSE 0])

RECURSIVE ReturnedQuantity(_, _)
ReturnedQuantity(rs, k) ==
    IF rs = {} THEN 0
    ELSE LET r == CHOOSE q \in rs : TRUE
         IN ReturnedInReturn(r, k) + ReturnedQuantity(rs \ {r}, k)

\* C37: for every line of a sales order, the quantities returned of it, summed
\* over all sales returns created for the order, do not exceed the quantity
\* the line was ordered with
ReturnedWithinOrdered ==
    \A o \in DOMAIN salesOrders : \A k \in 1..Len(salesOrders[o].items) :
        ReturnedQuantity(ReturnsOf(o), k) <= salesOrders[o].items[k].quantity

\* C38: a stored sales order has a shipped date exactly when its status is
\* shipped or completed: once it is shipped, no later request or message
\* returns it to status paid
ShippedDateIffShippedStatus ==
    \A o \in DOMAIN salesOrders :
        salesOrders[o].shipped <=> salesOrders[o].status \in {"shipped", "completed"}

\* C39: a ProcessRefund request that ends with an error because a store write
\* failed leaves no payment row of its own behind, and leaves the invoice's
\* paid amount, balance and status and the return's status and refund link
\* as the request loaded them
FailedRefundChangesNothing ==
    [][\A p \in Procs :
          (/\ inflight[p].op = "ProcessRefund"
           /\ inflight'[p] = Idle
           /\ ~ok') =>
              /\ inflight[p].payment \notin DOMAIN payments'
              /\ invoices'[inflight[p].invoice].paid = inflight[p].invoiceCopy.paid
              /\ invoices'[inflight[p].invoice].balance
                    = inflight[p].invoiceCopy.balance
              /\ invoices'[inflight[p].invoice].status
                    = inflight[p].invoiceCopy.status
              /\ salesReturns'[inflight[p].target].status = inflight[p].copy.status
              /\ salesReturns'[inflight[p].target].refundPayment
                    = inflight[p].copy.refundPayment]_vars

====
